---- MODULE Spec2Model ----
(***************************************************************************)
(* The appointment store of execution/booking_manager.py (BookingManager): *)
(* the in-memory list of bookings, the JSON artifact it is saved to, and   *)
(* the operations create_booking, update_booking, cancel_booking and       *)
(* is_slot_available.                                                      *)
(*                                                                         *)
(* A datetime string is a record [kind, date, hh, mm, sep, secs]: date is  *)
(* the YYYYMMDD number, sep the character between date and time, secs      *)
(* whether a ":00" seconds field is written.  A parsed datetime is a       *)
(* record [date, minute], minute counted from midnight.                    *)
(***************************************************************************)
EXTENDS Integers, Sequences, FiniteSets, TLC

VARIABLES
    bookings,              \* self.bookings: the in-memory list of records
    file,                  \* the artifact at self.bookings_file
    appointment_duration,  \* self.appointment_duration (minutes)
    clock,                 \* the wall clock read by datetime.now()
    last,                  \* the most recent call and how it ended
    issued,                \* every confirmation number create_booking has returned
    threads,               \* the create_booking call each server thread is in
    disk,                  \* whether the file system accepts a write of the artifact
    voice                  \* self.bookings of the BookingManager of the voice handler

vars == <<bookings, file, appointment_duration, clock, last, issued, threads, disk, voice>>

-----------------------------------------------------------------------------
(* Bounds of the model *)

MaxBookings == 2
MaxClock == 1
\* iterations of the loop of get_available_slots that are followed
MaxWalk == 18

-----------------------------------------------------------------------------
(* Values *)

None == "None"

DefaultDuration == 30

\* the calendar week the model's dates lie in: Monday 2025-12-22 .. Sunday 2025-12-28
Dates == 20251222 .. 20251228

DayIndex(date) == date - 20251222

DT(date, hh, mm, sep) ==
    [kind |-> "datetime", date |-> date, hh |-> hh, mm |-> mm, sep |-> sep, secs |-> FALSE]

NoDatetime == [kind |-> "none", date |-> 0, hh |-> 0, mm |-> 0, sep |-> "", secs |-> FALSE]

EmptyString == [kind |-> "empty", date |-> 0, hh |-> 0, mm |-> 0, sep |-> "", secs |-> FALSE]

Malformed == [kind |-> "malformed", date |-> 0, hh |-> 0, mm |-> 0, sep |-> "", secs |-> FALSE]

\* the datetime strings a caller passes: Tuesday 2025-12-23, Saturday
\* 2025-12-27 and Sunday 2025-12-28
DatetimeInputs ==
    { DT(20251223, 10, 0, " "), DT(20251223, 10, 0, "T"),
      DT(20251223, 10, 15, " "), DT(20251223, 10, 30, " "),
      DT(20251223, 16, 45, " "), DT(20251223, 17, 0, " "),
      DT(20251223, 8, 45, " "),
      DT(20251227, 13, 0, " "),
      DT(20251228, 10, 0, " "),
      Malformed }

PatientNames == {"John Doe"}
Phones == {"555-1234"}
Emails == {None}
CreateReasons == {None}
UpdateReasons == {None, "cleaning"}
CreateStatuses == {"confirmed", "pending", "cancelled"}
UpdateStatuses == {None, "confirmed", "pending", "cancelled"}

-----------------------------------------------------------------------------
(* datetime parsing and formatting *)

\* the test `appointment_datetime is None`, which "" passes
FalsyNoneOnly(s) == s.kind = "none"

\* `not appointment_datetime`: None and "" are both falsy
Falsy(s) == s.kind \in {"none", "empty"}

\* datetime.fromisoformat(s.replace('Z', '+00:00')), with the
\* strptime(s, "%Y-%m-%d %H:%M") fallback: succeeds on a datetime string
Parseable(s) == s.kind = "datetime"

ParseDatetime(s) == [date |-> s.date, minute |-> s.hh * 60 + s.mm]

\* dt.isoformat(): "YYYY-MM-DDTHH:MM:SS"
IsoFormat(dt) ==
    [kind |-> "datetime", date |-> dt.date, hh |-> dt.minute \div 60,
     mm |-> dt.minute % 60, sep |-> "T", secs |-> TRUE]

\* dt.strftime("%A").lower()
DayNames ==
    <<"monday", "tuesday", "wednesday", "thursday", "friday", "saturday", "sunday">>

DayName(dt) == DayNames[DayIndex(dt.date) + 1]

\* position of a datetime on the time line, in minutes (what datetime
\* comparison and timedelta arithmetic work on)
Instant(dt) == DayIndex(dt.date) * 1440 + dt.minute

\* datetime.strptime("HH:MM", "%H:%M").time(), as minutes from midnight
TimeOfDay(hh, mm) == hh * 60 + mm

-----------------------------------------------------------------------------
(* self.office_hours *)

\* "start": None, "end": None
NoHours == -1

office_hours(day_name) ==
    CASE day_name = "saturday" -> [start |-> TimeOfDay(9, 0), end |-> TimeOfDay(13, 0)]
      [] day_name = "sunday"   -> [start |-> NoHours, end |-> NoHours]
      [] OTHER                 -> [start |-> TimeOfDay(9, 0), end |-> TimeOfDay(17, 0)]

-----------------------------------------------------------------------------
(* confirmation numbers: f"APT{dt.strftime('%Y%m%d')}{n:04d}" *)

ConfirmationNumber(dt, n) == [prefix |-> "APT", date |-> dt.date, seq |-> n]

RECURSIVE ZeroPadded(_, _)
\* f"{n:0{width}d}": the decimal digits of n, zeros in front up to the width
ZeroPadded(n, width) ==
    IF n < 10 /\ width <= 1
    THEN <<n>>
    ELSE ZeroPadded(n \div 10, width - 1) \o <<n % 10>>

\* the characters of the string: "APT", strftime('%Y%m%d'), f"{n:04d}"
ConfirmationString(c) ==
    <<"A", "P", "T">> \o ZeroPadded(c.date, 8) \o ZeroPadded(c.seq, 4)

\* exclude_confirmation = None
NoConfirmation == [prefix |-> "", date |-> 0, seq |-> 0]

\* a confirmation number no record carries
UnknownConfirmation == [prefix |-> "APT", date |-> 20251223, seq |-> 9999]

-----------------------------------------------------------------------------
(* is_slot_available *)

\* line 199: the weekday has office hours
DayOpen(dt) == office_hours(DayName(dt)).start # NoHours

\* the check with the comparison against office_start left out
WithinOfficeHoursEndOnly(dt) ==
    LET h == office_hours(DayName(dt))
    IN  ~(dt.minute >= h.end)

\* lines 202-207: not (appointment_time < office_start or appointment_time >= office_end)
WithinOfficeHours(dt) ==
    LET h == office_hours(DayName(dt))
    IN  ~(dt.minute < h.start \/ dt.minute >= h.end)

\* the test comparing the two start times only
OverlapEqualStart(dt, existing_dt, duration) ==
    Instant(dt) = Instant(existing_dt)

\* the test with slot_end compared against existing_end
OverlapEndAgainstEnd(dt, existing_dt, duration) ==
    /\ Instant(dt) < Instant(existing_dt) + duration
    /\ Instant(dt) + duration > Instant(existing_dt) + duration

\* the test on closed intervals, which two abutting appointments meet
OverlapClosed(dt, existing_dt, duration) ==
    /\ Instant(dt) <= Instant(existing_dt) + duration
    /\ Instant(dt) + duration >= Instant(existing_dt)

\* line 226: dt < existing_end and slot_end > existing_dt
Overlap(dt, existing_dt, duration) ==
    /\ Instant(dt) < Instant(existing_dt) + duration
    /\ Instant(dt) + duration > Instant(existing_dt)

\* the scan that does not skip the record named by exclude_confirmation
ScannedWithoutExclusion(booking, exclude_confirmation) ==
    /\ booking.status # "cancelled"
    /\ Parseable(booking.datetime_iso)

\* lines 213-216: the records the conflict scan does not skip
Scanned(booking, exclude_confirmation) ==
    /\ booking.status # "cancelled"
    /\ ~(exclude_confirmation # NoConfirmation
          /\ booking.confirmation_number = exclude_confirmation)
    /\ Parseable(booking.datetime_iso)

\* lines 212-227
Conflict(bs, duration, dt, exclude_confirmation) ==
    \E i \in 1 .. Len(bs) :
        /\ Scanned(bs[i], exclude_confirmation)
        /\ Overlap(dt, ParseDatetime(bs[i].datetime_iso), duration)

\* the value is_slot_available returns for a parseable string
is_slot_available(bs, duration, appointment_datetime, exclude_confirmation) ==
    LET dt == ParseDatetime(appointment_datetime)
    IN  /\ DayOpen(dt)
        /\ WithinOfficeHours(dt)
        /\ ~Conflict(bs, duration, dt, exclude_confirmation)

-----------------------------------------------------------------------------
(* get_available_slots.  A date string is a record [kind, date], a "HH:MM" *)
(* string a record [hh, mm].                                               *)

DateStr(date) == [kind |-> "date", date |-> date]

MalformedDate == [kind |-> "malformed", date |-> 0]

HM(hh, mm) == [hh |-> hh, mm |-> mm]

\* the dates a caller asks about: Tuesday, Saturday, Sunday, and a string
\* that is no date
DateInputs == { DateStr(20251223), DateStr(20251227), DateStr(20251228), MalformedDate }

\* the (start_time, end_time) windows a caller passes; the first is the default
Windows ==
    { <<HM(9, 0), HM(17, 0)>>, <<HM(9, 15), HM(17, 15)>>, <<HM(8, 0), HM(12, 0)>> }

RECURSIVE WalkUnfiltered(_, _, _, _, _)
\* the walk keeping every step, whatever is_slot_available says
WalkUnfiltered(bs, duration, date, current, end) ==
    IF current + duration <= end
    THEN <<HM(current \div 60, current % 60)>>
             \o WalkUnfiltered(bs, duration, date, current + duration, end)
    ELSE <<>>

RECURSIVE WalkStopsEarly(_, _, _, _, _)
\* the walk that leaves out the step ending exactly at the end of the window
WalkStopsEarly(bs, duration, date, current, end) ==
    IF current + duration < end
    THEN LET slot_str == DT(date, current \div 60, current % 60, " ")
             rest == WalkStopsEarly(bs, duration, date, current + duration, end)
         IN  IF is_slot_available(bs, duration, slot_str, NoConfirmation)
             THEN <<HM(current \div 60, current % 60)>> \o rest
             ELSE rest
    ELSE <<>>

RECURSIVE Walk(_, _, _, _, _)
\* lines 266-270: current and end are minutes from midnight of the date
Walk(bs, duration, date, current, end) ==
    IF current + duration <= end
    THEN LET slot_str == DT(date, current \div 60, current % 60, " ")
             rest == Walk(bs, duration, date, current + duration, end)
         IN  IF is_slot_available(bs, duration, slot_str, NoConfirmation)
             THEN <<HM(current \div 60, current % 60)>> \o rest
             ELSE rest
    ELSE <<>>

\* lines 248-272
get_available_slots(bs, duration, date, start_time, end_time) ==
    IF date.kind # "date"
    THEN <<>>
    ELSE LET h == office_hours(DayName([date |-> date.date, minute |-> 0]))
             default == start_time = HM(9, 0) /\ end_time = HM(17, 0)
             current == IF default THEN h.start
                        ELSE TimeOfDay(start_time.hh, start_time.mm)
             end == IF default THEN h.end ELSE TimeOfDay(end_time.hh, end_time.mm)
         IN  IF h.start = NoHours THEN <<>>
             ELSE Walk(bs, duration, date.date, current, end)

-----------------------------------------------------------------------------
(* the artifact *)

\* _save_bookings leaving the cancelled records out
save_bookingsActiveOnly(bs) ==
    [kind |-> "json", recs |-> SelectSeq(bs, LAMBDA b : b.status # "cancelled")]

\* _save_bookings: the whole list is written over the file
save_bookings(bs) == [kind |-> "json", recs |-> bs]

\* _save_bookings raising OSError: on a disk that denies the write open()
\* raises and the artifact stays as it is; on a full disk open() has
\* truncated the artifact before the write fails
WriteFailed(f, d) == IF d = "full" THEN [kind |-> "unparseable", recs |-> <<>>] ELSE f

\* _load_bookings: the list in a well-formed artifact, [] when the artifact
\* is absent, cannot be opened or read (IOError) or is no JSON
\* (json.JSONDecodeError)
load_bookings(f) == IF f.kind = "json" THEN f.recs ELSE <<>>

\* _load_bookings raising: bytes that are no UTF-8 make f.read() raise
\* UnicodeDecodeError, which lines 51-52 do not catch
LoadRaises(f) == f.kind = "undecodable"

\* the values a later datetime.now() may return when an earlier one returned t
Now(t) == {t} \cup (IF t < MaxClock THEN {t + 1} ELSE {})

-----------------------------------------------------------------------------
(* get_booking: position of the first record with the confirmation number, *)
(* 0 when there is none                                                    *)

get_booking(bs, confirmation_number) ==
    LET hits == { i \in 1 .. Len(bs) : bs[i].confirmation_number = confirmation_number }
    IN  IF hits = {} THEN 0 ELSE CHOOSE i \in hits : \A j \in hits : i <= j

-----------------------------------------------------------------------------
(* create_booking: how the call ends and the list it leaves.  t1 and t2    *)
(* are the two readings of datetime.now() at lines 110 and 111.            *)

Raised(bs, msg) ==
    [ret |-> "raised", exc |-> "ValueError", msg |-> msg, bookings |-> bs,
     saved |-> FALSE, conf |-> NoConfirmation]

\* the record numbered by the count of records that are not cancelled
NewBookingCountsActive(bs, patient_name, phone, email, appointment_datetime, reason, status, t1, t2) ==
    LET dt == ParseDatetime(appointment_datetime)
        n == Cardinality({ i \in 1 .. Len(bs) : bs[i].status # "cancelled" }) + 1
    IN  [id |-> n,
         confirmation_number |-> ConfirmationNumber(dt, n),
         patient_name |-> patient_name,
         phone |-> phone,
         email |-> email,
         appointment_datetime |-> appointment_datetime,
         datetime_iso |-> IsoFormat(dt),
         reason |-> reason,
         status |-> status,
         created_at |-> t1,
         updated_at |-> t2]

\* the record numbered by the count of records before the call
NewBookingNumbersFromCount(bs, patient_name, phone, email, appointment_datetime, reason, status, t1, t2) ==
    LET dt == ParseDatetime(appointment_datetime)
    IN  [id |-> Len(bs) + 1,
         confirmation_number |-> ConfirmationNumber(dt, Len(bs)),
         patient_name |-> patient_name,
         phone |-> phone,
         email |-> email,
         appointment_datetime |-> appointment_datetime,
         datetime_iso |-> IsoFormat(dt),
         reason |-> reason,
         status |-> status,
         created_at |-> t1,
         updated_at |-> t2]

\* the record with ids counted from zero
NewBookingZeroBased(bs, patient_name, phone, email, appointment_datetime, reason, status, t1, t2) ==
    LET dt == ParseDatetime(appointment_datetime)
    IN  [id |-> Len(bs),
         confirmation_number |-> ConfirmationNumber(dt, Len(bs) + 1),
         patient_name |-> patient_name,
         phone |-> phone,
         email |-> email,
         appointment_datetime |-> appointment_datetime,
         datetime_iso |-> IsoFormat(dt),
         reason |-> reason,
         status |-> status,
         created_at |-> t1,
         updated_at |-> t2]

\* the record with the two readings of the clock written the other way round
NewBookingSwapsReadings(bs, patient_name, phone, email, appointment_datetime, reason, status, t1, t2) ==
    LET dt == ParseDatetime(appointment_datetime)
    IN  [id |-> Len(bs) + 1,
         confirmation_number |-> ConfirmationNumber(dt, Len(bs) + 1),
         patient_name |-> patient_name,
         phone |-> phone,
         email |-> email,
         appointment_datetime |-> appointment_datetime,
         datetime_iso |-> IsoFormat(dt),
         reason |-> reason,
         status |-> status,
         created_at |-> t2,
         updated_at |-> t1]

\* lines 97-112
NewBooking(bs, patient_name, phone, email, appointment_datetime, reason, status, t1, t2) ==
    LET dt == ParseDatetime(appointment_datetime)
    IN  [id |-> Len(bs) + 1,
         confirmation_number |-> ConfirmationNumber(dt, Len(bs) + 1),
         patient_name |-> patient_name,
         phone |-> phone,
         email |-> email,
         appointment_datetime |-> appointment_datetime,
         datetime_iso |-> IsoFormat(dt),
         reason |-> reason,
         status |-> status,
         created_at |-> t1,
         updated_at |-> t2]

\* create_booking appending the record before it asks is_slot_available
CreateResultAppendsFirst(bs, duration, patient_name, phone, email, appointment_datetime, reason, status, t1, t2) ==
    IF Falsy(appointment_datetime)
    THEN Raised(bs, "appointment_datetime is required")
    ELSE IF ~Parseable(appointment_datetime)
    THEN Raised(bs, "does not match format")
    ELSE LET booking == NewBooking(bs, patient_name, phone, email,
                                   appointment_datetime, reason, status, t1, t2)
         IN  IF ~is_slot_available(bs, duration, appointment_datetime, NoConfirmation)
             THEN Raised(Append(bs, booking), "is not available")
             ELSE [ret |-> "record", exc |-> None, msg |-> "",
                   bookings |-> Append(bs, booking), saved |-> TRUE,
                   conf |-> booking.confirmation_number]

\* create_booking putting the new record in front of the list
CreateResultInsertsInFront(bs, duration, patient_name, phone, email, appointment_datetime, reason, status, t1, t2) ==
    IF Falsy(appointment_datetime)
    THEN Raised(bs, "appointment_datetime is required")
    ELSE IF ~Parseable(appointment_datetime)
    THEN Raised(bs, "does not match format")
    ELSE IF ~is_slot_available(bs, duration, appointment_datetime, NoConfirmation)
    THEN Raised(bs, "is not available")
    ELSE LET booking == NewBooking(bs, patient_name, phone, email,
                                   appointment_datetime, reason, status, t1, t2)
         IN  [ret |-> "record", exc |-> None, msg |-> "",
              bookings |-> <<booking>> \o bs, saved |-> TRUE,
              conf |-> booking.confirmation_number]

\* lines 83-117
CreateResult(bs, duration, patient_name, phone, email, appointment_datetime, reason, status, t1, t2) ==
    IF Falsy(appointment_datetime)
    THEN Raised(bs, "appointment_datetime is required")
    ELSE IF ~Parseable(appointment_datetime)
    THEN Raised(bs, "does not match format")
    ELSE IF ~is_slot_available(bs, duration, appointment_datetime, NoConfirmation)
    THEN Raised(bs, "is not available")
    ELSE LET booking == NewBooking(bs, patient_name, phone, email,
                                   appointment_datetime, reason, status, t1, t2)
         IN  [ret |-> "record", exc |-> None, msg |-> "",
              bookings |-> Append(bs, booking), saved |-> TRUE,
              conf |-> booking.confirmation_number]

-----------------------------------------------------------------------------
(* update_booking: how the call ends and the list it leaves.  t is the     *)
(* reading of datetime.now() at line 171.                                  *)

\* line 154
Reschedules(booking, appointment_datetime) ==
    /\ ~Falsy(appointment_datetime)
    /\ appointment_datetime # booking.appointment_datetime

\* the update that derives the confirmation number anew from the date the
\* record is moved to
UpdatedRenumbers(booking, appointment_datetime, reason, status, t) ==
    LET b1 == IF Reschedules(booking, appointment_datetime)
              THEN [booking EXCEPT
                       !.appointment_datetime = appointment_datetime,
                       !.datetime_iso = IsoFormat(ParseDatetime(appointment_datetime)),
                       !.confirmation_number =
                           ConfirmationNumber(ParseDatetime(appointment_datetime),
                                              booking.id + 1)]
              ELSE booking
        b2 == IF reason # None THEN [b1 EXCEPT !.reason = reason] ELSE b1
        b3 == IF status # None THEN [b2 EXCEPT !.status = status] ELSE b2
    IN  [b3 EXCEPT !.updated_at = t]

\* the update that writes reason and status whether or not they were passed
UpdatedWritesNone(booking, appointment_datetime, reason, status, t) ==
    LET b1 == IF Reschedules(booking, appointment_datetime)
              THEN [booking EXCEPT
                       !.appointment_datetime = appointment_datetime,
                       !.datetime_iso = IsoFormat(ParseDatetime(appointment_datetime))]
              ELSE booking
    IN  [b1 EXCEPT !.reason = reason, !.status = status, !.updated_at = t]

\* the update that overwrites the display string and leaves datetime_iso
UpdatedKeepsInstant(booking, appointment_datetime, reason, status, t) ==
    LET b1 == IF Reschedules(booking, appointment_datetime)
              THEN [booking EXCEPT !.appointment_datetime = appointment_datetime]
              ELSE booking
        b2 == IF reason # None THEN [b1 EXCEPT !.reason = reason] ELSE b1
        b3 == IF status # None THEN [b2 EXCEPT !.status = status] ELSE b2
    IN  [b3 EXCEPT !.updated_at = t]

\* lines 163-171 on the record found
Updated(booking, appointment_datetime, reason, status, t) ==
    LET b1 == IF Reschedules(booking, appointment_datetime)
              THEN [booking EXCEPT
                       !.appointment_datetime = appointment_datetime,
                       !.datetime_iso = IsoFormat(ParseDatetime(appointment_datetime))]
              ELSE booking
        b2 == IF reason # None THEN [b1 EXCEPT !.reason = reason] ELSE b1
        b3 == IF status # None THEN [b2 EXCEPT !.status = status] ELSE b2
    IN  [b3 EXCEPT !.updated_at = t]

\* update_booking writing reason and status into the record before the
\* availability check
UpdateResultWritesFirst(bs, duration, confirmation_number, appointment_datetime, reason, status, t) ==
    LET i == get_booking(bs, confirmation_number)
    IN  IF i = 0
        THEN [ret |-> "None", exc |-> None, msg |-> "", bookings |-> bs,
              saved |-> FALSE, conf |-> NoConfirmation]
        ELSE IF Reschedules(bs[i], appointment_datetime) /\ ~Parseable(appointment_datetime)
        THEN Raised(bs, "does not match format")
        ELSE IF /\ Reschedules(bs[i], appointment_datetime)
                /\ ~is_slot_available(bs, duration, appointment_datetime, confirmation_number)
        THEN Raised([bs EXCEPT ![i] = Updated(bs[i], NoDatetime, reason, status,
                                              bs[i].updated_at)],
                    "is not available")
        ELSE [ret |-> "record", exc |-> None, msg |-> "",
              bookings |-> [bs EXCEPT ![i] = Updated(bs[i], appointment_datetime,
                                                     reason, status, t)],
              saved |-> TRUE, conf |-> confirmation_number]

\* update_booking asking is_slot_available before it looks the record up
UpdateResultChecksFirst(bs, duration, confirmation_number, appointment_datetime, reason, status, t) ==
    LET i == get_booking(bs, confirmation_number)
    IN  IF ~Falsy(appointment_datetime) /\ ~Parseable(appointment_datetime)
        THEN Raised(bs, "does not match format")
        ELSE IF /\ ~Falsy(appointment_datetime)
                /\ ~is_slot_available(bs, duration, appointment_datetime, confirmation_number)
        THEN Raised(bs, "is not available")
        ELSE IF i = 0
        THEN [ret |-> "None", exc |-> None, msg |-> "", bookings |-> bs,
              saved |-> FALSE, conf |-> NoConfirmation]
        ELSE [ret |-> "record", exc |-> None, msg |-> "",
              bookings |-> [bs EXCEPT ![i] = Updated(bs[i], appointment_datetime,
                                                     reason, status, t)],
              saved |-> TRUE, conf |-> confirmation_number]

\* lines 149-174
UpdateResult(bs, duration, confirmation_number, appointment_datetime, reason, status, t) ==
    LET i == get_booking(bs, confirmation_number)
    IN  IF i = 0
        THEN [ret |-> "None", exc |-> None, msg |-> "", bookings |-> bs,
              saved |-> FALSE, conf |-> NoConfirmation]
        ELSE IF Reschedules(bs[i], appointment_datetime) /\ ~Parseable(appointment_datetime)
        THEN Raised(bs, "does not match format")
        ELSE IF /\ Reschedules(bs[i], appointment_datetime)
                /\ ~is_slot_available(bs, duration, appointment_datetime, confirmation_number)
        THEN Raised(bs, "is not available")
        ELSE [ret |-> "record", exc |-> None, msg |-> "",
              bookings |-> [bs EXCEPT ![i] = Updated(bs[i], appointment_datetime,
                                                     reason, status, t)],
              saved |-> TRUE, conf |-> confirmation_number]

\* cancel_booking answering False for a record that is cancelled already
CancelResultOnce(bs, duration, confirmation_number, t) ==
    LET i == get_booking(bs, confirmation_number)
        r == UpdateResult(bs, duration, confirmation_number, NoDatetime, None, "cancelled", t)
    IN  IF i # 0 /\ bs[i].status = "cancelled"
        THEN [ret |-> "False", exc |-> None, msg |-> "", bookings |-> bs,
              saved |-> FALSE, conf |-> NoConfirmation]
        ELSE [r EXCEPT !.ret = IF r.ret = "None" THEN "False" ELSE "True"]

\* cancel_booking: update_booking(confirmation_number, status="cancelled"),
\* the result turned into `booking is not None`
CancelResult(bs, duration, confirmation_number, t) ==
    LET r == UpdateResult(bs, duration, confirmation_number, NoDatetime, None, "cancelled", t)
    IN  [r EXCEPT !.ret = IF r.ret = "raised" THEN "raised"
                          ELSE IF r.ret = "None" THEN "False" ELSE "True"]

-----------------------------------------------------------------------------
(* get_booking_by_phone and get_bookings_by_date *)

\* line 128
get_booking_by_phone(bs, phone) ==
    SelectSeq(bs, LAMBDA b : b.phone = phone /\ b.status # "cancelled")

\* x.get("datetime_iso", "") compared as strings: "YYYY-MM-DDTHH:MM:SS"
\* strings compare as their dates, then hours, then minutes
IsoStringLessEq(a, b) ==
    \/ a.date < b.date
    \/ a.date = b.date /\ a.hh < b.hh
    \/ a.date = b.date /\ a.hh = b.hh /\ a.mm <= b.mm

RECURSIVE sorted(_)
\* sorted(result, key=datetime_iso): a stable sort, the last element put
\* behind every element whose key is not greater
sorted(result) ==
    IF result = <<>>
    THEN <<>>
    ELSE LET front == sorted(SubSeq(result, 1, Len(result) - 1))
             x == result[Len(result)]
             notGreater == { k \in 1 .. Len(front) :
                               \A j \in 1 .. k :
                                   IsoStringLessEq(front[j].datetime_iso, x.datetime_iso) }
             n == Cardinality(notGreater)
         IN  SubSeq(front, 1, n) \o <<x>> \o SubSeq(front, n + 1, Len(front))

\* get_bookings_by_date returning the cancelled records of the date as well
get_bookings_by_dateWithCancelled(bs, date) ==
    IF date.kind # "date"
    THEN <<>>
    ELSE sorted(SelectSeq(bs, LAMBDA b : /\ Parseable(b.datetime_iso)
                                         /\ ParseDatetime(b.datetime_iso).date = date.date))

\* lines 276-292
get_bookings_by_date(bs, date) ==
    IF date.kind # "date"
    THEN <<>>
    ELSE sorted(SelectSeq(bs, LAMBDA b : /\ b.status # "cancelled"
                                         /\ Parseable(b.datetime_iso)
                                         /\ ParseDatetime(b.datetime_iso).date = date.date))

-----------------------------------------------------------------------------
(* is_slot_available and get_available_slots as calls: how they end *)

\* is_slot_available answering False for a string it cannot parse
SlotResultLenient(bs, duration, appointment_datetime, exclude_confirmation) ==
    IF ~Parseable(appointment_datetime)
    THEN [ret |-> "False", exc |-> None, msg |-> ""]
    ELSE IF is_slot_available(bs, duration, appointment_datetime, exclude_confirmation)
    THEN [ret |-> "True", exc |-> None, msg |-> ""]
    ELSE [ret |-> "False", exc |-> None, msg |-> ""]

\* lines 192-229: None has no replace() (AttributeError), a string that
\* neither fromisoformat nor strptime accepts raises the ValueError of
\* strptime at line 195
SlotResult(bs, duration, appointment_datetime, exclude_confirmation) ==
    IF appointment_datetime.kind = "none"
    THEN [ret |-> "raised", exc |-> "AttributeError", msg |-> "has no attribute"]
    ELSE IF ~Parseable(appointment_datetime)
    THEN [ret |-> "raised", exc |-> "ValueError", msg |-> "does not match format"]
    ELSE IF is_slot_available(bs, duration, appointment_datetime, exclude_confirmation)
    THEN [ret |-> "True", exc |-> None, msg |-> ""]
    ELSE [ret |-> "False", exc |-> None, msg |-> ""]

-----------------------------------------------------------------------------
(* The state machine *)

\* the threads of the web server that serve requests on the one
\* BookingManager of a handler
Threads == {1, 2}

\* a thread that is in no call
Idle ==
    [pc |-> "idle", appointment_datetime |-> NoDatetime, ret |-> "",
     booking |-> <<>>, date |-> 0, current |-> 0, end |-> 0, slots |-> <<>>,
     steps |-> 0]

NoCall ==
    [op |-> "init", conf |-> NoConfirmation, ret |-> "", exc |-> None, msg |-> "",
     pre_status |-> None, rescheduled |-> FALSE, slots |-> <<>>,
     asked |-> NoDatetime, records |-> <<>>,
     handler |-> "", booking_status |-> None, response |-> ""]

Init ==
    /\ bookings = <<>>
    /\ file = [kind |-> "absent", recs |-> <<>>]
    /\ appointment_duration = DefaultDuration
    /\ clock = 0
    /\ last = NoCall
    /\ issued = {}
    /\ threads = [th \in Threads |-> Idle]
    /\ disk = "ok"
    /\ voice = <<>>

\* the confirmation numbers a caller may pass
ConfirmationInputs ==
    { bookings[i].confirmation_number : i \in 1 .. Len(bookings) } \cup {UnknownConfirmation}

\* what the call found: the status of the record it names, None when there is none
PreStatus(confirmation_number) ==
    LET i == get_booking(bookings, confirmation_number)
    IN  IF i = 0 THEN None ELSE bookings[i].status

\* whether the call overwrote the datetime of the record it names
Rescheduled(r, confirmation_number, appointment_datetime) ==
    LET i == get_booking(bookings, confirmation_number)
    IN  r.saved /\ i # 0 /\ Reschedules(bookings[i], appointment_datetime)

\* how a call that has come to _save_bookings ends: as computed when the
\* write succeeds, with the OSError of the write otherwise
Outcome(r, d) ==
    IF r.saved /\ d # "ok"
    THEN [r EXCEPT !.ret = "raised", !.exc = "OSError", !.msg = "write failed"]
    ELSE r

\* the end of a call that takes the record back out of the list when the
\* write fails
FinishRollsBack(op, r, pre_status, rescheduled, t) ==
    LET o == Outcome(r, disk)
    IN  /\ bookings' = IF r.saved /\ disk # "ok" THEN bookings ELSE r.bookings
        /\ file' = IF ~r.saved THEN file
                   ELSE IF disk = "ok" THEN save_bookings(r.bookings)
                   ELSE WriteFailed(file, disk)
        /\ clock' = IF r.saved THEN t ELSE clock
        /\ last' = [op |-> op, conf |-> o.conf, ret |-> o.ret, exc |-> o.exc,
                    msg |-> o.msg, pre_status |-> pre_status,
                    rescheduled |-> rescheduled, slots |-> <<>>,
                    asked |-> NoDatetime, records |-> <<>>,
                    handler |-> "", booking_status |-> None, response |-> ""]
        /\ UNCHANGED <<appointment_duration, threads, disk, voice>>

Finish(op, r, pre_status, rescheduled, t) ==
    LET o == Outcome(r, disk)
    IN  /\ bookings' = r.bookings
        /\ file' = IF ~r.saved THEN file
                   ELSE IF disk = "ok" THEN save_bookings(r.bookings)
                   ELSE WriteFailed(file, disk)
        /\ clock' = IF r.saved THEN t ELSE clock
        /\ last' = [op |-> op, conf |-> o.conf, ret |-> o.ret, exc |-> o.exc,
                    msg |-> o.msg, pre_status |-> pre_status,
                    rescheduled |-> rescheduled, slots |-> <<>>,
                    asked |-> NoDatetime, records |-> <<>>,
                    handler |-> "", booking_status |-> None, response |-> ""]
        /\ UNCHANGED <<appointment_duration, threads, disk, voice>>

create_booking(patient_name, phone, email, appointment_datetime, reason, status, t1, t2) ==
    LET r == CreateResult(bookings, appointment_duration, patient_name, phone, email,
                          appointment_datetime, reason, status, t1, t2)
    IN  /\ r.ret = "record" => Len(bookings) < MaxBookings
        /\ ~r.saved => (t1 = clock /\ t2 = clock)
        /\ Finish("create_booking",
                  [r EXCEPT !.conf = IF Outcome(r, disk).ret = "record"
                                     THEN r.conf ELSE NoConfirmation],
                  None, FALSE, t2)
        /\ issued' = IF Outcome(r, disk).ret = "record"
                     THEN issued \cup {r.conf} ELSE issued

update_booking(confirmation_number, appointment_datetime, reason, status, t) ==
    LET r == UpdateResult(bookings, appointment_duration, confirmation_number,
                          appointment_datetime, reason, status, t)
    IN  /\ ~r.saved => t = clock
        /\ Finish("update_booking", [r EXCEPT !.conf = confirmation_number],
                  PreStatus(confirmation_number),
                  Rescheduled(r, confirmation_number, appointment_datetime), t)
        /\ UNCHANGED issued

cancel_booking(confirmation_number, t) ==
    LET r == CancelResult(bookings, appointment_duration, confirmation_number, t)
    IN  /\ ~r.saved => t = clock
        /\ Finish("cancel_booking", [r EXCEPT !.conf = confirmation_number],
                  PreStatus(confirmation_number), FALSE, t)
        /\ UNCHANGED issued

\* a call of is_slot_available by a user of the BookingManager
is_slot_available_call(appointment_datetime, exclude_confirmation) ==
    LET r == SlotResult(bookings, appointment_duration, appointment_datetime,
                        exclude_confirmation)
    IN  /\ last' = [NoCall EXCEPT !.op = "is_slot_available",
                                  !.conf = exclude_confirmation,
                                  !.asked = appointment_datetime,
                                  !.ret = r.ret, !.exc = r.exc, !.msg = r.msg]
        /\ UNCHANGED <<bookings, file, appointment_duration, clock, issued, threads, disk, voice>>

\* a call of get_available_slots by a user of the BookingManager
get_available_slots_call(date, start_time, end_time) ==
    /\ last' = [NoCall EXCEPT !.op = "get_available_slots", !.ret = "list",
                              !.slots = get_available_slots(bookings, appointment_duration,
                                                            date, start_time, end_time)]
    /\ UNCHANGED <<bookings, file, appointment_duration, clock, issued, threads, disk, voice>>

\* a call of get_booking by a user of the BookingManager
get_booking_call(confirmation_number) ==
    LET i == get_booking(bookings, confirmation_number)
    IN  /\ last' = [NoCall EXCEPT !.op = "get_booking",
                                  !.conf = confirmation_number,
                                  !.ret = IF i = 0 THEN "None" ELSE "record",
                                  !.records = IF i = 0 THEN <<>> ELSE <<bookings[i]>>]
        /\ UNCHANGED <<bookings, file, appointment_duration, clock, issued, threads, disk, voice>>

\* a call of get_booking_by_phone by a user of the BookingManager
get_booking_by_phone_call(phone) ==
    /\ last' = [NoCall EXCEPT !.op = "get_booking_by_phone", !.ret = "list",
                              !.records = get_booking_by_phone(bookings, phone)]
    /\ UNCHANGED <<bookings, file, appointment_duration, clock, issued, threads, disk, voice>>

\* get_bookings_by_date sorting self.bookings in place
get_bookings_by_date_callInPlace(date) ==
    /\ last' = [NoCall EXCEPT !.op = "get_bookings_by_date", !.ret = "list",
                              !.records = get_bookings_by_date(bookings, date)]
    /\ bookings' = sorted(bookings)
    /\ UNCHANGED <<file, appointment_duration, clock, issued, threads, disk, voice>>

\* a call of get_bookings_by_date by a user of the BookingManager
get_bookings_by_date_call(date) ==
    /\ last' = [NoCall EXCEPT !.op = "get_bookings_by_date", !.ret = "list",
                              !.records = get_bookings_by_date(bookings, date)]
    /\ UNCHANGED <<bookings, file, appointment_duration, clock, issued, threads, disk, voice>>

-----------------------------------------------------------------------------
(* Spec: calls with every datetime input and every status, all within one  *)
(* reading of the clock                                                    *)

Create ==
    \E patient_name \in PatientNames, phone \in Phones, email \in Emails,
       appointment_datetime \in DatetimeInputs \cup {NoDatetime, EmptyString},
       reason \in CreateReasons, status \in CreateStatuses :
        create_booking(patient_name, phone, email, appointment_datetime, reason, status,
                       clock, clock)

Update ==
    \E confirmation_number \in ConfirmationInputs,
       appointment_datetime \in DatetimeInputs \cup {NoDatetime},
       status \in UpdateStatuses :
        update_booking(confirmation_number, appointment_datetime, None, status, clock)

Cancel ==
    \E confirmation_number \in ConfirmationInputs :
        cancel_booking(confirmation_number, clock)

Next == Create \/ Update \/ Cancel

Spec == Init /\ [][Next]_vars

-----------------------------------------------------------------------------
(* SpecFields: calls that also change the reason, at clock readings that   *)
(* may advance between calls and between the two readings of one call      *)

FieldsDatetimes ==
    { DT(20251223, 10, 0, " "), DT(20251223, 10, 15, " "),
      DT(20251223, 17, 0, " "), DT(20251228, 10, 0, " "), Malformed }

FieldsStatuses == {"confirmed", "cancelled"}

CreateFields ==
    \E patient_name \in PatientNames, phone \in Phones, email \in Emails,
       appointment_datetime \in FieldsDatetimes,
       reason \in CreateReasons, status \in FieldsStatuses :
        \E t1 \in Now(clock) : \E t2 \in Now(t1) :
            create_booking(patient_name, phone, email, appointment_datetime, reason,
                           status, t1, t2)

UpdateFields ==
    \E confirmation_number \in ConfirmationInputs,
       appointment_datetime \in FieldsDatetimes \cup {NoDatetime},
       reason \in UpdateReasons, status \in FieldsStatuses \cup {None} :
        \E t \in Now(clock) :
            update_booking(confirmation_number, appointment_datetime, reason, status, t)

CancelFields ==
    \E confirmation_number \in ConfirmationInputs :
        \E t \in Now(clock) : cancel_booking(confirmation_number, t)

NextFields == CreateFields \/ UpdateFields \/ CancelFields

SpecFields == Init /\ [][NextFields]_vars

-----------------------------------------------------------------------------
(* SpecIO: the process is restarted (BookingManager is constructed again   *)
(* over the artifact), and the artifact may be removed or damaged while    *)
(* the process is down or running                                          *)

IODatetimes == { DT(20251223, 10, 0, " "), DT(20251223, 10, 30, " ") }

\* a BookingManager exists: the last construction did not raise
Running == ~(last.op = "restart" /\ last.ret = "raised")

CreateIO ==
    /\ Running
    /\ \E patient_name \in PatientNames, phone \in Phones, email \in Emails,
          appointment_datetime \in IODatetimes, reason \in CreateReasons :
           create_booking(patient_name, phone, email, appointment_datetime, reason,
                          "confirmed", clock, clock)

CancelIO ==
    /\ Running
    /\ \E confirmation_number \in ConfirmationInputs :
           cancel_booking(confirmation_number, clock)

\* __init__, lines 27-43
Restart ==
    /\ IF LoadRaises(file)
       THEN /\ bookings' = <<>>
            /\ last' = [NoCall EXCEPT !.op = "restart", !.ret = "raised",
                                      !.exc = "UnicodeDecodeError"]
       ELSE /\ bookings' = load_bookings(file)
            /\ last' = [NoCall EXCEPT !.op = "restart"]
    /\ appointment_duration' = DefaultDuration
    /\ UNCHANGED <<file, clock, issued, threads, disk, voice>>

RemoveArtifact ==
    /\ file.kind # "absent"
    /\ file' = [kind |-> "absent", recs |-> <<>>]
    /\ UNCHANGED <<bookings, appointment_duration, clock, last, issued, threads, disk, voice>>

\* what a damaged artifact is: text that is no JSON, bytes that are no
\* UTF-8, a file that cannot be opened or read
Damages == {"unparseable", "undecodable", "unreadable"}

DamageArtifact ==
    /\ file.kind = "json"
    /\ \E kind \in Damages : file' = [kind |-> kind, recs |-> <<>>]
    /\ UNCHANGED <<bookings, appointment_duration, clock, last, issued, threads, disk, voice>>

NextIO == CreateIO \/ CancelIO \/ Restart \/ RemoveArtifact \/ DamageArtifact

SpecIO == Init /\ [][NextIO]_vars

-----------------------------------------------------------------------------
(* SpecDisk: the file system may stop accepting writes of the artifact     *)
(* (disk full, permission denied) and accept them again; _save_bookings    *)
(* then raises OSError out of the call that reached it                     *)

DiskDatetimes == { DT(20251223, 10, 0, " "), DT(20251223, 10, 30, " ") }

CreateDisk ==
    \E patient_name \in PatientNames, phone \in Phones, email \in Emails,
       appointment_datetime \in DiskDatetimes, reason \in CreateReasons,
       status \in FieldsStatuses :
        create_booking(patient_name, phone, email, appointment_datetime, reason,
                       status, clock, clock)

UpdateDisk ==
    \E confirmation_number \in ConfirmationInputs,
       appointment_datetime \in {DT(20251223, 10, 30, " "), NoDatetime} :
        update_booking(confirmation_number, appointment_datetime, None, None, clock)

CancelDisk ==
    \E confirmation_number \in ConfirmationInputs :
        cancel_booking(confirmation_number, clock)

DiskFails ==
    /\ disk = "ok"
    /\ disk' \in {"full", "denied"}
    /\ UNCHANGED <<bookings, file, appointment_duration, clock, last, issued, threads, voice>>

DiskRecovers ==
    /\ disk # "ok"
    /\ disk' = "ok"
    /\ UNCHANGED <<bookings, file, appointment_duration, clock, last, issued, threads, voice>>

NextDisk == CreateDisk \/ UpdateDisk \/ CancelDisk \/ DiskFails \/ DiskRecovers

SpecDisk == Init /\ [][NextDisk]_vars

-----------------------------------------------------------------------------
(* SpecThreads: create_booking calls of two requests served on different   *)
(* threads of the web server, on the one BookingManager of the chat        *)
(* handler.  No lock is taken anywhere, so the threads may be switched     *)
(* between the availability check (line 94), the building of the record    *)
(* (lines 97-112), the append (line 114) and the save (line 115).          *)

ThreadDatetimes ==
    { DT(20251223, 10, 0, " "), DT(20251223, 10, 15, " "), DT(20251223, 10, 30, " ") }

\* the calls that have passed the availability check and not yet appended
Appending == { th \in Threads : threads[th].pc \in {"build", "append"} }

\* lines 83-95: the call is entered and is_slot_available is asked
ThreadCheck(th, appointment_datetime) ==
    /\ threads[th].pc = "idle"
    /\ IF is_slot_available(bookings, appointment_duration, appointment_datetime,
                            NoConfirmation)
       THEN /\ Len(bookings) + Cardinality(Appending) < MaxBookings
            /\ threads' = [threads EXCEPT ![th] =
                              [Idle EXCEPT !.pc = "build",
                                           !.appointment_datetime = appointment_datetime]]
            /\ UNCHANGED last
       ELSE /\ threads' = [threads EXCEPT ![th] =
                              [Idle EXCEPT !.pc = "done", !.ret = "raised",
                                           !.appointment_datetime = appointment_datetime]]
            /\ last' = [NoCall EXCEPT !.op = "create_booking", !.ret = "raised",
                                      !.exc = "ValueError", !.msg = "is not available"]
    /\ UNCHANGED <<bookings, file, appointment_duration, clock, issued, disk, voice>>

\* lines 97-112: the record is built from the list as it is now
ThreadBuild(th) ==
    /\ threads[th].pc = "build"
    /\ threads' = [threads EXCEPT
                      ![th].pc = "append",
                      ![th].booking =
                          <<NewBooking(bookings, "John Doe", "555-1234", None,
                                       threads[th].appointment_datetime, None,
                                       "confirmed", clock, clock)>>]
    /\ UNCHANGED <<bookings, file, appointment_duration, clock, last, issued, disk, voice>>

\* line 114
ThreadAppend(th) ==
    /\ threads[th].pc = "append"
    /\ bookings' = Append(bookings, threads[th].booking[1])
    /\ threads' = [threads EXCEPT ![th].pc = "save"]
    /\ UNCHANGED <<file, appointment_duration, clock, last, issued, disk, voice>>

\* lines 115-117: the list as it is now is written, and the record returned
ThreadSave(th) ==
    /\ threads[th].pc = "save"
    /\ IF disk = "ok"
       THEN /\ file' = save_bookings(bookings)
            /\ threads' = [threads EXCEPT ![th].pc = "done", ![th].ret = "record"]
            /\ last' = [NoCall EXCEPT !.op = "create_booking", !.ret = "record",
                                      !.conf = threads[th].booking[1].confirmation_number]
            /\ issued' = issued \cup {threads[th].booking[1].confirmation_number}
       ELSE /\ file' = WriteFailed(file, disk)
            /\ threads' = [threads EXCEPT ![th].pc = "done", ![th].ret = "raised"]
            /\ last' = [NoCall EXCEPT !.op = "create_booking", !.ret = "raised",
                                      !.exc = "OSError", !.msg = "write failed"]
            /\ UNCHANGED issued
    /\ UNCHANGED <<bookings, appointment_duration, clock, disk, voice>>

NextThreads ==
    \/ \E th \in Threads, appointment_datetime \in ThreadDatetimes :
          ThreadCheck(th, appointment_datetime)
    \/ \E th \in Threads : ThreadBuild(th)
    \/ \E th \in Threads : ThreadAppend(th)
    \/ \E th \in Threads : ThreadSave(th)

SpecThreads == Init /\ [][NextThreads]_vars

-----------------------------------------------------------------------------
(* SpecQueries: is_slot_available and get_available_slots are called       *)
(* between the calls that change the store                                 *)

QueryDatetimes ==
    { DT(20251223, 10, 0, " "), DT(20251223, 10, 15, " "), DT(20251223, 10, 30, " "),
      DT(20251223, 16, 45, " "), DT(20251228, 10, 0, " "), Malformed }

\* the strings is_slot_available is asked about
SlotQueryDatetimes ==
    QueryDatetimes \cup
        { DT(20251223, 9, 30, " "), DT(20251223, 9, 45, " "), DT(20251223, 8, 45, " "),
          DT(20251223, 17, 0, " "), DT(20251227, 12, 45, " "), DT(20251227, 13, 0, " "),
          EmptyString }

CreateQueries ==
    \E patient_name \in PatientNames, phone \in Phones, email \in Emails,
       appointment_datetime \in QueryDatetimes,
       reason \in CreateReasons, status \in FieldsStatuses :
        create_booking(patient_name, phone, email, appointment_datetime, reason, status,
                       clock, clock)

UpdateQueries ==
    \E confirmation_number \in ConfirmationInputs,
       appointment_datetime \in QueryDatetimes \cup {NoDatetime} :
        update_booking(confirmation_number, appointment_datetime, None, None, clock)

CancelQueries ==
    \E confirmation_number \in ConfirmationInputs :
        cancel_booking(confirmation_number, clock)

SlotAvailable ==
    \E appointment_datetime \in SlotQueryDatetimes,
       exclude_confirmation \in ConfirmationInputs \cup {NoConfirmation} :
        is_slot_available_call(appointment_datetime, exclude_confirmation)

AvailableSlots ==
    \E date \in DateInputs, window \in Windows :
        get_available_slots_call(date, window[1], window[2])

NextQueries ==
    CreateQueries \/ UpdateQueries \/ CancelQueries \/ SlotAvailable \/ AvailableSlots

SpecQueries == Init /\ [][NextQueries]_vars

-----------------------------------------------------------------------------
(* SpecLookups: the queries are called between calls that change the store *)
(* of two patients, on two dates                                           *)

LookupDatetimes ==
    { DT(20251223, 10, 0, " "), DT(20251223, 10, 30, " "), DT(20251227, 12, 0, " "),
      Malformed }

LookupPhones == {"555-1234", "555-9999"}

CreateLookups ==
    \E patient_name \in PatientNames, phone \in LookupPhones, email \in Emails,
       appointment_datetime \in LookupDatetimes,
       reason \in CreateReasons, status \in FieldsStatuses :
        create_booking(patient_name, phone, email, appointment_datetime, reason, status,
                       clock, clock)

UpdateLookups ==
    \E confirmation_number \in ConfirmationInputs,
       appointment_datetime \in {NoDatetime, DT(20251223, 10, 30, " ")},
       status \in {None, "confirmed"} :
        update_booking(confirmation_number, appointment_datetime, None, status, clock)

CancelLookups ==
    \E confirmation_number \in ConfirmationInputs :
        cancel_booking(confirmation_number, clock)

SlotAvailableLookups ==
    \E appointment_datetime \in LookupDatetimes \cup {NoDatetime},
       exclude_confirmation \in ConfirmationInputs \cup {NoConfirmation} :
        is_slot_available_call(appointment_datetime, exclude_confirmation)

AvailableSlotsLookups ==
    \E date \in DateInputs, window \in Windows :
        get_available_slots_call(date, window[1], window[2])

BookingLookups ==
    \E confirmation_number \in ConfirmationInputs :
        get_booking_call(confirmation_number)

PhoneLookups ==
    \E phone \in LookupPhones \cup {"555-0000"} : get_booking_by_phone_call(phone)

DateLookups ==
    \E date \in DateInputs : get_bookings_by_date_call(date)

NextLookups ==
    \/ CreateLookups \/ UpdateLookups \/ CancelLookups
    \/ SlotAvailableLookups \/ AvailableSlotsLookups
    \/ BookingLookups \/ PhoneLookups \/ DateLookups

SpecLookups == Init /\ [][NextLookups]_vars

-----------------------------------------------------------------------------
(* SpecHandlers: requests to the chat handler and to the voice handler of  *)
(* the web application.  Each handler has a BookingManager of its own,     *)
(* constructed at startup (web_app.py lines 65-66) over the one artifact:  *)
(* `bookings` is the list of the chat handler's, `voice` the list of the   *)
(* voice handler's.                                                        *)

Handlers == {"chat", "voice"}

\* self.booking_manager.bookings of a handler
ManagerBookings(h) == IF h = "chat" THEN bookings ELSE voice

\* extracted["intent"]
Intents == {"book", "reschedule", "cancel", "unknown"}

\* f"{extracted['date']} {extracted['time']}"; NoDatetime stands for a
\* message in which the date or the time was not found
HandlerDatetimes ==
    { DT(20251223, 10, 0, " "), DT(20251223, 10, 15, " "), Malformed, NoDatetime }

\* extracted["phone"]: the chat user's and the caller's
HandlerPhone(h) == IF h = "chat" THEN "555-1234" ELSE "555-9999"

\* extracted.get("confirmation_number"): a number either handler has given
\* out, one nobody has, or none
HandlerConfirmations ==
    { bookings[i].confirmation_number : i \in 1 .. Len(bookings) }
        \cup { voice[i].confirmation_number : i \in 1 .. Len(voice) }
        \cup {UnknownConfirmation, NoConfirmation}

\* the method of the BookingManager the request comes to call, "" when the
\* branches of the handler call none
EngineCall(intent, confirmation_number, appointment_datetime) ==
    IF intent = "book" /\ appointment_datetime # NoDatetime
    THEN "create_booking"
    ELSE IF /\ intent = "reschedule"
            /\ confirmation_number # NoConfirmation
            /\ appointment_datetime # NoDatetime
    THEN "update_booking"
    ELSE IF intent = "cancel" /\ confirmation_number # NoConfirmation
    THEN "cancel_booking"
    ELSE ""

\* how that call ends and the list it leaves
EngineResult(h, intent, confirmation_number, appointment_datetime) ==
    LET bs == ManagerBookings(h)
        call == EngineCall(intent, confirmation_number, appointment_datetime)
    IN  IF call = "create_booking"
        THEN CreateResult(bs, appointment_duration, "John Doe", HandlerPhone(h), None,
                          appointment_datetime, None, "confirmed", clock, clock)
        ELSE IF call = "update_booking"
        THEN UpdateResult(bs, appointment_duration, confirmation_number,
                          appointment_datetime, None, None, clock)
        ELSE IF call = "cancel_booking"
        THEN CancelResult(bs, appointment_duration, confirmation_number, clock)
        ELSE [ret |-> "", exc |-> None, msg |-> "", bookings |-> bs, saved |-> FALSE,
              conf |-> NoConfirmation]

\* booking_info: what _create_booking or _reschedule_booking returned, the
\* record or None (here <<>>); an exception of the call is turned into None
BookingInfo(call, o, confirmation_number) ==
    IF call = "create_booking" /\ o.ret = "record"
    THEN <<o.bookings[Len(o.bookings)]>>
    ELSE IF call = "update_booking" /\ o.ret = "record"
    THEN <<o.bookings[get_booking(o.bookings, confirmation_number)]>>
    ELSE <<>>

\* booking_status set whenever the branch of the intent is entered
BookingStatusOfIntent(call, o) ==
    IF call = "create_booking" THEN "confirmed"
    ELSE IF call = "update_booking" THEN "rescheduled"
    ELSE IF call = "cancel_booking" THEN "cancelled"
    ELSE None

\* booking_status: set under `if booking_info:` and `if success:`
BookingStatus(call, o) ==
    IF call = "create_booking" /\ o.ret = "record" THEN "confirmed"
    ELSE IF call = "update_booking" /\ o.ret = "record" THEN "rescheduled"
    ELSE IF call = "cancel_booking" /\ o.ret = "True" THEN "cancelled"
    ELSE None

\* the part of process_message and of process_voice_input from "Handle
\* booking actions" to the return.  _create_booking and _reschedule_booking
\* catch every exception of the call; _cancel_booking catches none, so an
\* exception of cancel_booking ends the request without a response.
handle_booking_actions(h, intent, confirmation_number, appointment_datetime) ==
    LET bs == ManagerBookings(h)
        call == EngineCall(intent, confirmation_number, appointment_datetime)
        r == EngineResult(h, intent, confirmation_number, appointment_datetime)
        o == Outcome(r, disk)
    IN  /\ (call = "create_booking" /\ r.ret = "record") => Len(bs) < MaxBookings
        /\ IF h = "chat"
           THEN bookings' = r.bookings /\ voice' = voice
           ELSE voice' = r.bookings /\ bookings' = bookings
        /\ file' = IF ~r.saved THEN file
                   ELSE IF disk = "ok" THEN save_bookings(r.bookings)
                   ELSE WriteFailed(file, disk)
        /\ last' = [NoCall EXCEPT
                       !.op = call,
                       !.conf = IF call = "create_booking"
                                THEN (IF o.ret = "record" THEN r.conf ELSE NoConfirmation)
                                ELSE confirmation_number,
                       !.ret = o.ret, !.exc = o.exc, !.msg = o.msg,
                       !.handler = h,
                       !.booking_status = BookingStatus(call, o),
                       !.records = BookingInfo(call, o, confirmation_number),
                       !.response = IF call = "cancel_booking" /\ o.ret = "raised"
                                    THEN "raised" ELSE "dict"]
        /\ issued' = IF call = "create_booking" /\ o.ret = "record"
                     THEN issued \cup {r.conf} ELSE issued
        /\ UNCHANGED <<appointment_duration, clock, threads, disk>>

\* POST /api/chat
process_message(intent, confirmation_number, appointment_datetime) ==
    handle_booking_actions("chat", intent, confirmation_number, appointment_datetime)

\* POST /api/voice
process_voice_input(intent, confirmation_number, appointment_datetime) ==
    handle_booking_actions("voice", intent, confirmation_number, appointment_datetime)

Chat ==
    \E intent \in Intents, confirmation_number \in HandlerConfirmations,
       appointment_datetime \in HandlerDatetimes :
        process_message(intent, confirmation_number, appointment_datetime)

Voice ==
    \E intent \in Intents, confirmation_number \in HandlerConfirmations,
       appointment_datetime \in HandlerDatetimes :
        process_voice_input(intent, confirmation_number, appointment_datetime)

NextHandlers == Chat \/ Voice

SpecHandlers == Init /\ [][NextHandlers]_vars

-----------------------------------------------------------------------------
(* SpecDurations: the BookingManager is constructed with the values of     *)
(* APPOINTMENT_DURATION_MINUTES that int() accepts, and the loop of         *)
(* get_available_slots is followed one iteration at a time.  The frame of   *)
(* the call holds date, current, end and slots; current and end are         *)
(* minutes from midnight of the date.                                       *)

\* int(os.getenv("APPOINTMENT_DURATION_MINUTES", "30"))
Durations == {30, 60, 0, -30}

DurationDatetimes == { DT(20251223, 9, 0, " "), DT(20251223, 10, 0, " ") }

\* the one thread of the process
Main == 1

InNoCall == threads[Main].pc = "idle"

\* __init__, lines 27-43, in an environment that sets the duration
Construct ==
    /\ InNoCall
    /\ \E duration \in Durations : appointment_duration' = duration
    /\ IF LoadRaises(file)
       THEN /\ bookings' = <<>>
            /\ last' = [NoCall EXCEPT !.op = "restart", !.ret = "raised",
                                      !.exc = "UnicodeDecodeError"]
       ELSE /\ bookings' = load_bookings(file)
            /\ last' = [NoCall EXCEPT !.op = "restart"]
    /\ UNCHANGED <<file, clock, issued, threads, disk, voice>>

CreateDurations ==
    /\ InNoCall
    /\ \E patient_name \in PatientNames, phone \in Phones, email \in Emails,
          appointment_datetime \in DurationDatetimes, reason \in CreateReasons :
           create_booking(patient_name, phone, email, appointment_datetime, reason,
                          "confirmed", clock, clock)

\* current.strftime("%Y-%m-%d %H:%M"), current = the date's midnight plus
\* `current` minutes
SlotString(date, current) ==
    DT(date + (current \div 1440), (current % 1440) \div 60, current % 60, " ")

\* lines 248-264: the early returns, or the loop is entered
SlotsEnter(date, start_time, end_time) ==
    /\ InNoCall
    /\ IF date.kind # "date"
       THEN /\ last' = [NoCall EXCEPT !.op = "get_available_slots", !.ret = "list"]
            /\ UNCHANGED threads
       ELSE LET h == office_hours(DayName([date |-> date.date, minute |-> 0]))
                default == start_time = HM(9, 0) /\ end_time = HM(17, 0)
            IN  IF h.start = NoHours
                THEN /\ last' = [NoCall EXCEPT !.op = "get_available_slots",
                                               !.ret = "list"]
                     /\ UNCHANGED threads
                ELSE /\ threads' = [threads EXCEPT ![Main] =
                            [Idle EXCEPT
                                !.pc = "walk",
                                !.date = date.date,
                                !.current = IF default THEN h.start
                                            ELSE TimeOfDay(start_time.hh, start_time.mm),
                                !.end = IF default THEN h.end
                                        ELSE TimeOfDay(end_time.hh, end_time.mm)]]
                     /\ UNCHANGED last
    /\ UNCHANGED <<bookings, file, appointment_duration, clock, issued, disk, voice>>

\* line 266: the loop condition
SlotsCondition(f) == f.current + appointment_duration <= f.end

\* lines 266-270: one iteration
SlotsIterate ==
    LET f == threads[Main]
    IN  /\ f.pc = "walk"
        /\ SlotsCondition(f)
        /\ f.steps < MaxWalk
        /\ threads' = [threads EXCEPT ![Main] =
               [f EXCEPT
                   !.slots = IF is_slot_available(bookings, appointment_duration,
                                                  SlotString(f.date, f.current),
                                                  NoConfirmation)
                             THEN Append(f.slots,
                                         HM((f.current % 1440) \div 60, f.current % 60))
                             ELSE f.slots,
                   !.current = f.current + appointment_duration,
                   !.steps = f.steps + 1]]
        /\ UNCHANGED <<bookings, file, appointment_duration, clock, last, issued, disk, voice>>

\* line 272
SlotsReturn ==
    LET f == threads[Main]
    IN  /\ f.pc = "walk"
        /\ ~SlotsCondition(f)
        /\ last' = [NoCall EXCEPT !.op = "get_available_slots", !.ret = "list",
                                  !.slots = f.slots]
        /\ threads' = [threads EXCEPT ![Main] = Idle]
        /\ UNCHANGED <<bookings, file, appointment_duration, clock, issued, disk, voice>>

NextDurations ==
    \/ Construct
    \/ CreateDurations
    \/ \E date \in DateInputs, window \in Windows : SlotsEnter(date, window[1], window[2])
    \/ SlotsIterate
    \/ SlotsReturn

SpecDurations == Init /\ [][NextDurations]_vars

-----------------------------------------------------------------------------
(* What the properties speak of *)

\* the office hours the properties are stated against: Monday to Friday
\* 09:00-17:00, Saturday 09:00-13:00, Sunday closed
OpenDay(date) == DayIndex(date) \in 0 .. 5
OpensAt(date) == 9 * 60
ClosesAt(date) == IF DayIndex(date) = 5 THEN 13 * 60 ELSE 17 * 60

\* start of a record's interval, in minutes on the time line
StartOf(b) == DayIndex(b.datetime_iso.date) * 1440 + b.datetime_iso.hh * 60 + b.datetime_iso.mm

\* [a, a + d) and [b, b + d) intersect
Intersect(a, b, d) == a < b + d /\ b < a + d

Active(b) == b.status # "cancelled"

NoDoubleBooking(bs) ==
    \A i, j \in 1 .. Len(bs) :
        (i < j /\ Active(bs[i]) /\ Active(bs[j]))
            => ~Intersect(StartOf(bs[i]), StartOf(bs[j]), appointment_duration)

\* C1: in every reachable state no two records that are not cancelled have
\* intersecting intervals [datetime_iso, datetime_iso + duration).
C1_NoDoubleBooking == NoDoubleBooking(bookings)

\* C2: a successful update_booking that overwrites the datetime of a record
\* in a store without intersecting active intervals leaves a store without
\* intersecting active intervals.
C2_RescheduleKeepsNoDoubleBooking ==
    [][ ( /\ last'.op = "update_booking"
          /\ last'.ret = "record"
          /\ \E i \in 1 .. Len(bookings) :
                bookings'[i].appointment_datetime # bookings[i].appointment_datetime
          /\ NoDoubleBooking(bookings) )
        => NoDoubleBooking(bookings') ]_vars

\* a reschedule has moved a record next to another active record
C2_Witness ==
    /\ last.op = "update_booking" /\ last.ret = "record" /\ last.rescheduled
    /\ Len(bookings) = 2
    /\ Active(bookings[1]) /\ Active(bookings[2])
    /\ NoDoubleBooking(bookings)

\* C3: update_booking on an existing record with a new datetime that is on
\* a closed day, outside office hours or intersects another active record
\* raises the availability error and leaves the list and the artifact as
\* they were, whatever reason and status were passed with it.
RefusedSlot(confirmation_number, s) ==
    LET start == DayIndex(s.date) * 1440 + s.hh * 60 + s.mm
        time == s.hh * 60 + s.mm
    IN  \/ ~OpenDay(s.date)
        \/ time < OpensAt(s.date)
        \/ time >= ClosesAt(s.date)
        \/ \E j \in 1 .. Len(bookings) :
              /\ bookings[j].confirmation_number # confirmation_number
              /\ Active(bookings[j])
              /\ Intersect(start, StartOf(bookings[j]), appointment_duration)

C3_RefusedRescheduleChangesNothing ==
    [][ last'.op = "update_booking" =>
        \A s \in FieldsDatetimes :
          ( /\ s.kind = "datetime"
            /\ \E i \in 1 .. Len(bookings) :
                  /\ bookings[i].confirmation_number = last'.conf
                  /\ bookings[i].appointment_datetime # s
            /\ RefusedSlot(last'.conf, s) )
          => \A reason \in UpdateReasons, status \in FieldsStatuses \cup {None},
                t \in Now(clock) :
                update_booking(last'.conf, s, reason, status, t)
                => ( /\ last'.ret = "raised"
                     /\ last'.msg = "is not available"
                     /\ bookings' = bookings
                     /\ file' = file ) ]_vars

\* a reschedule of an existing record has been refused
C3_Witness ==
    /\ last.op = "update_booking"
    /\ last.msg = "is not available"
    /\ last.pre_status # None
    /\ Len(bookings) = 2

\* C4: all records, cancelled or not, carry pairwise distinct confirmation
\* numbers.
C4_DistinctConfirmationNumbers ==
    \A i, j \in 1 .. Len(bookings) :
        i # j => bookings[i].confirmation_number # bookings[j].confirmation_number

\* two records for the same date, the first of them cancelled
C4_Witness ==
    /\ Len(bookings) = 2
    /\ bookings[1].status = "cancelled"
    /\ bookings[1].datetime_iso.date = bookings[2].datetime_iso.date

\* C5: create_booking never returns a confirmation number it has returned
\* before, restarts over a missing or unparseable artifact included.
C5_NeverReissued ==
    [][ ( /\ last'.op = "create_booking" /\ last'.ret = "record"
          /\ Len(bookings') = Len(bookings) + 1 )
        => last'.conf \notin issued ]_vars

AvailableNow(bs, s) == is_slot_available(bs, appointment_duration, s, NoConfirmation)

\* C6 as stated: right after a successful create_booking, whatever status
\* was passed, is_slot_available is false for its instant, and it stays
\* false from one state to the next while the record is not cancelled.
C6_UnavailableUntilCancelled ==
    [][ /\ (last'.op = "create_booking" /\ last'.ret = "record")
            => ~AvailableNow(bookings', bookings'[Len(bookings')].appointment_datetime)
        /\ \A i \in 1 .. Len(bookings) :
              ( /\ Active(bookings[i])
                /\ ~AvailableNow(bookings, bookings[i].appointment_datetime)
                /\ Active(bookings'[i]) )
              => ~AvailableNow(bookings', bookings[i].appointment_datetime) ]_vars

\* C6, amended: is_slot_available is false for the datetime of every record
\* that is not cancelled, so from a create_booking with a status other than
\* cancelled until the record is cancelled or moved to another datetime.
C6_ActiveSlotUnavailable ==
    \A i \in 1 .. Len(bookings) :
        Active(bookings[i]) => ~AvailableNow(bookings, bookings[i].appointment_datetime)

\* a record created earlier is still active after a later call on another record
C6_Witness ==
    /\ Len(bookings) = 2
    /\ Active(bookings[1])
    /\ last.op \in {"update_booking", "cancel_booking"}
    /\ last.conf = bookings[2].confirmation_number
    /\ last.ret \in {"record", "True"}

\* C7: after cancel_booking has succeeded on a record that was not
\* cancelled, is_slot_available is true for that record's datetime.
C7_CancelFreesSlot ==
    (last.op = "cancel_booking" /\ last.ret = "True" /\ last.pre_status \notin {None, "cancelled"})
    => \A i \in 1 .. Len(bookings) :
          bookings[i].confirmation_number = last.conf
              => AvailableNow(bookings, bookings[i].appointment_datetime)

\* C8: cancel_booking on an existing confirmation number answers True and
\* leaves the record cancelled; on a record that is cancelled already it
\* changes nothing but that record's updated_at.
C8_CancelTwice ==
    [][ \A i \in 1 .. Len(bookings) :
          (last'.op = "cancel_booking" /\ last'.conf = bookings[i].confirmation_number)
          => ( /\ last'.ret = "True"
               /\ Len(bookings') = Len(bookings)
               /\ bookings'[i].status = "cancelled"
               /\ bookings[i].status = "cancelled"
                    => bookings' = [bookings EXCEPT ![i].updated_at = bookings'[i].updated_at] )
      ]_vars

\* the second cancellation of a record, at a later clock reading than the first
C8_Witness ==
    /\ last.op = "cancel_booking"
    /\ last.ret = "True"
    /\ last.pre_status = "cancelled"
    /\ \E i \in 1 .. Len(bookings) :
          /\ bookings[i].confirmation_number = last.conf
          /\ bookings[i].updated_at > bookings[i].created_at

\* C9: every stored record starts on an open weekday at a time t with
\* open <= t < close for that weekday.
C9_StoredWithinOfficeHours ==
    \A i \in 1 .. Len(bookings) :
        LET iso == bookings[i].datetime_iso
            time == iso.hh * 60 + iso.mm
        IN  /\ OpenDay(iso.date)
            /\ OpensAt(iso.date) <= time
            /\ time < ClosesAt(iso.date)

\* a record has been moved by update_booking and another one created
C9_Witness ==
    /\ Len(bookings) = 2
    /\ last.op = "update_booking" /\ last.rescheduled

\* C10: is_slot_available is false for every start on an open day whose
\* interval [t, t + duration) ends after that day's closing time, and no
\* stored record's interval runs past closing.
C10_NoSlotPastClosing ==
    /\ \A s \in DatetimeInputs :
          ( /\ s.kind = "datetime"
            /\ OpenDay(s.date)
            /\ s.hh * 60 + s.mm + appointment_duration > ClosesAt(s.date) )
          => ~AvailableNow(bookings, s)
    /\ \A i \in 1 .. Len(bookings) :
          LET iso == bookings[i].datetime_iso
          IN  iso.hh * 60 + iso.mm + appointment_duration <= ClosesAt(iso.date)

\* the list get_available_slots returns in the current store
SlotsNow(date, window) ==
    get_available_slots(bookings, appointment_duration, date, window[1], window[2])

Contains(slots, t) == \E k \in 1 .. Len(slots) : slots[k] = t

\* C11: for every date and every start_time/end_time window, each time t
\* that get_available_slots returns has open <= t and t + duration <= close
\* for that weekday.
C11_SlotsWithinOfficeHours ==
    \A date \in DateInputs, window \in Windows :
        LET slots == SlotsNow(date, window)
        IN  \A k \in 1 .. Len(slots) :
              LET t == slots[k].hh * 60 + slots[k].mm
              IN  /\ OpenDay(date.date)
                  /\ OpensAt(date.date) <= t
                  /\ t + appointment_duration <= ClosesAt(date.date)

\* the calls of the example: create_booking with the default status
CreateAt(hh, mm) ==
    \E patient_name \in PatientNames, phone \in Phones, email \in Emails,
       reason \in CreateReasons :
        create_booking(patient_name, phone, email, DT(20251223, hh, mm, " "), reason,
                       "confirmed", clock, clock)

\* the store holds the records of the example, each as it was created
ExampleStore(bs, n) ==
    /\ Len(bs) = n
    /\ n >= 1 => ( /\ bs[1].appointment_datetime = DT(20251223, 10, 0, " ")
                   /\ bs[1].status = "confirmed" )
    /\ n >= 2 => ( /\ bs[2].appointment_datetime = DT(20251223, 10, 30, " ")
                   /\ bs[2].status = "confirmed" )

\* C12: on an empty store create_booking at 2025-12-23 10:00 returns the
\* record APT202512230001; then create_booking at 10:15 fails and at 10:30
\* succeeds; then get_available_slots("2025-12-23") holds 09:00 and 09:30
\* and neither 10:00 nor 10:30.
C12_ExampleScenario ==
    [][ /\ (ExampleStore(bookings, 0) /\ CreateAt(10, 0))
            => ( /\ last'.ret = "record"
                 /\ last'.conf = [prefix |-> "APT", date |-> 20251223, seq |-> 1]
                 /\ ExampleStore(bookings', 1) )
        /\ (ExampleStore(bookings, 1) /\ CreateAt(10, 15))
            => (last'.ret = "raised" /\ bookings' = bookings)
        /\ (ExampleStore(bookings, 1) /\ CreateAt(10, 30))
            => (last'.ret = "record" /\ ExampleStore(bookings', 2))
        /\ ExampleStore(bookings', 2)
            => LET slots == get_available_slots(bookings', appointment_duration,
                                                DateStr(20251223), HM(9, 0), HM(17, 0))
               IN  /\ Contains(slots, HM(9, 0))
                   /\ Contains(slots, HM(9, 30))
                   /\ ~Contains(slots, HM(10, 0))
                   /\ ~Contains(slots, HM(10, 30)) ]_vars

\* the second creation of the example has just succeeded
C12_Witness ==
    /\ last.op = "create_booking" /\ last.ret = "record"
    /\ last.conf = [prefix |-> "APT", date |-> 20251223, seq |-> 2]
    /\ ExampleStore(bookings, 2)
    /\ Len(SlotsNow(DateStr(20251223), <<HM(9, 0), HM(17, 0)>>)) = 14

CreateWith(appointment_datetime, status) ==
    \E patient_name \in PatientNames, phone \in Phones, email \in Emails,
       reason \in CreateReasons :
        create_booking(patient_name, phone, email, appointment_datetime, reason, status,
                       clock, clock)

\* C13: create_booking for a datetime on a closed day, outside office hours
\* or intersecting an active record raises the availability error and leaves
\* the list and the artifact as they were; a successful create_booking gives
\* its record id and sequence number equal to the record count before the
\* call plus one.
C13_RefusedCreateChangesNothing ==
    [][ last'.op = "create_booking" =>
        /\ \A s \in DatetimeInputs :
              (s.kind = "datetime" /\ RefusedSlot(NoConfirmation, s))
              => \A status \in CreateStatuses :
                    CreateWith(s, status)
                    => ( /\ last'.ret = "raised"
                         /\ last'.msg = "is not available"
                         /\ bookings' = bookings
                         /\ file' = file )
        /\ last'.ret = "record"
              => ( /\ Len(bookings') = Len(bookings) + 1
                   /\ bookings'[Len(bookings')].id = Len(bookings) + 1
                   /\ bookings'[Len(bookings')].confirmation_number.seq = Len(bookings) + 1 )
      ]_vars

\* create_booking has been refused for a store that holds an active record
C13_Witness ==
    /\ last.op = "create_booking"
    /\ last.msg = "is not available"
    /\ Len(bookings) = 1
    /\ Active(bookings[1])
    /\ file.recs = bookings

\* start of the interval a datetime string names, in minutes on the time line
StartOfString(s) == DayIndex(s.date) * 1440 + s.hh * 60 + s.mm

\* C14: two create_booking calls for the same or intersecting slots that
\* run on different threads never both return a record, however their
\* check, append and save steps interleave.
C14_ConcurrentCreatesSerialized ==
    \A a, b \in Threads :
        ( /\ a # b
          /\ threads[a].pc = "done" /\ threads[a].ret = "record"
          /\ threads[b].pc = "done" /\ threads[b].ret = "record" )
        => ~Intersect(StartOfString(threads[a].appointment_datetime),
                      StartOfString(threads[b].appointment_datetime),
                      appointment_duration)

\* C15: after every create_booking, update_booking or cancel_booking that
\* succeeded, the artifact is well-formed and holds exactly the sequence of
\* records of the in-memory list.
C15_ArtifactEqualsList ==
    (last.op \in {"create_booking", "update_booking", "cancel_booking"}
        /\ last.ret \in {"record", "True"})
    => (file.kind = "json" /\ load_bookings(file) = bookings)

\* a cancellation has succeeded after the disk had refused an earlier write
C15_Witness ==
    /\ last.op = "cancel_booking" /\ last.ret = "True"
    /\ Len(bookings) = 2
    /\ bookings[1].status = "cancelled"
    /\ Cardinality(issued) < Len(bookings)
    /\ disk = "ok"

\* C16: when the write of the artifact fails inside create_booking,
\* update_booking or cancel_booking, the call raises, and the in-memory list
\* and the list held by the artifact do not end up different.
C16_WriteFailureKeepsStatesEqual ==
    [][ ( /\ last'.op \in {"create_booking", "update_booking", "cancel_booking"}
          /\ last'.exc = "OSError"
          /\ load_bookings(file) = bookings )
        => ( /\ last'.ret = "raised"
             /\ load_bookings(file') = bookings' ) ]_vars

\* C17: constructing a BookingManager over an artifact that is absent,
\* unparseable or unreadable gives an empty list and does not raise; over a
\* well-formed artifact it gives the records last written.
C17_LenientStartup ==
    [][ (last'.op = "restart" /\ file' = file /\ disk' = disk)
        => ( /\ last'.ret # "raised"
             /\ bookings' = IF file.kind = "json" THEN file.recs ELSE <<>> ) ]_vars

\* C18: update_booking and cancel_booking with a confirmation number that no
\* record carries return None and False, raise nothing whatever datetime is
\* passed along, and leave the list and the artifact as they were.
C18_UnknownConfirmationIsNotAnError ==
    [][ (last'.op \in {"update_booking", "cancel_booking"}
            /\ last'.conf = UnknownConfirmation)
        => /\ \A s \in DatetimeInputs \cup {NoDatetime}, status \in UpdateStatuses :
                 update_booking(UnknownConfirmation, s, None, status, clock)
                 => ( /\ last'.ret = "None" /\ last'.exc = None
                      /\ bookings' = bookings /\ file' = file )
           /\ cancel_booking(UnknownConfirmation, clock)
                 => ( /\ last'.ret = "False" /\ last'.exc = None
                      /\ bookings' = bookings /\ file' = file ) ]_vars

\* an unknown confirmation number has been passed to a store that holds records
C18_Witness ==
    /\ last.op = "update_booking"
    /\ last.conf = UnknownConfirmation
    /\ last.ret = "None"
    /\ Len(bookings) = 2
    /\ Active(bookings[1])

\* C19: create_booking with no datetime (None or "") raises the validation
\* error, not the availability error, and leaves the list and the artifact
\* as they were.
C19_MissingDatetime ==
    [][ last'.op = "create_booking" =>
        \A s \in {NoDatetime, EmptyString}, status \in CreateStatuses :
            CreateWith(s, status)
            => ( /\ last'.ret = "raised"
                 /\ last'.msg = "appointment_datetime is required"
                 /\ bookings' = bookings
                 /\ file' = file ) ]_vars

\* create_booking without a datetime has been refused by a store that holds a record
C19_Witness ==
    /\ last.op = "create_booking"
    /\ last.msg = "appointment_datetime is required"
    /\ Len(bookings) >= 1

\* how create_booking ends for a datetime string in the current store
CreateOutcome(s) ==
    CreateResult(bookings, appointment_duration, "John Doe", "555-1234", None, s, None,
                 "confirmed", clock, clock)

\* how update_booking of record i ends for a datetime string in the current store
UpdateOutcome(i, s) ==
    UpdateResult(bookings, appointment_duration, bookings[i].confirmation_number, s,
                 None, None, clock)

\* C20: the error create_booking and update_booking end with for a slot
\* that is closed or taken is of another kind than the error they end with
\* for a missing or malformed datetime.
C20_DistinctErrorKinds ==
    /\ \A s1 \in DatetimeInputs, s2 \in {NoDatetime, EmptyString, Malformed} :
          ( /\ CreateOutcome(s1).msg = "is not available"
            /\ CreateOutcome(s2).ret = "raised" )
          => CreateOutcome(s1).exc # CreateOutcome(s2).exc
    /\ \A i \in 1 .. Len(bookings) :
          \A s1 \in DatetimeInputs :
              ( /\ UpdateOutcome(i, s1).msg = "is not available"
                /\ UpdateOutcome(i, Malformed).ret = "raised" )
              => UpdateOutcome(i, s1).exc # UpdateOutcome(i, Malformed).exc

\* the call that made the step ended with the parsing error and left the
\* list and the artifact as they were
ParseErrorReachedCaller ==
    /\ last'.ret = "raised"
    /\ last'.exc = "ValueError"
    /\ last'.msg = "does not match format"
    /\ bookings' = bookings
    /\ file' = file

MalformedCreateRaises ==
    \A patient_name \in PatientNames, phone \in Phones, email \in Emails,
       reason \in CreateReasons, status \in CreateStatuses :
        create_booking(patient_name, phone, email, Malformed, reason, status, clock, clock)
            => ParseErrorReachedCaller

MalformedSlotQueryRaises ==
    \A exclude_confirmation \in ConfirmationInputs \cup {NoConfirmation} :
        is_slot_available_call(Malformed, exclude_confirmation) => ParseErrorReachedCaller

\* C21 as stated: create_booking, update_booking and is_slot_available given
\* a datetime string that matches neither accepted format end with an error
\* that reaches the caller and leave the store unchanged.
C21_MalformedDatetimeRaises ==
    [][ /\ MalformedCreateRaises
        /\ MalformedSlotQueryRaises
        /\ \A confirmation_number \in ConfirmationInputs :
              update_booking(confirmation_number, Malformed, None, None, clock)
                  => ParseErrorReachedCaller ]_vars

\* C21, amended: create_booking, is_slot_available, and update_booking
\* naming a record the store holds, given a datetime string that matches
\* neither accepted format, end with the parsing error reaching the caller
\* and leave the list and the artifact as they were.
C21_MalformedDatetimeRaisesForKnownRecord ==
    [][ /\ MalformedCreateRaises
        /\ MalformedSlotQueryRaises
        /\ \A confirmation_number \in ConfirmationInputs :
              ( /\ get_booking(bookings, confirmation_number) # 0
                /\ update_booking(confirmation_number, Malformed, None, None, clock) )
                  => ParseErrorReachedCaller ]_vars

\* update_booking of a record the store holds has been refused for a
\* malformed datetime
C21_Witness ==
    /\ last.op = "update_booking"
    /\ last.msg = "does not match format"
    /\ get_booking(bookings, last.conf) # 0

\* C22: in a store that started empty every step leaves the record at
\* position i of the list with id = i, so ids are unique and increase in
\* insertion order, and no step changes the id of a record the list held.
C22_IdIsPosition ==
    [][ /\ \A i \in 1 .. Len(bookings') : bookings'[i].id = i
        /\ \A i \in 1 .. Len(bookings) :
              /\ i <= Len(bookings')
              /\ bookings'[i].id = bookings[i].id ]_vars

\* the first of two records has been rescheduled after the second was created
C22_Witness ==
    /\ Len(bookings) = 2
    /\ last.op = "update_booking"
    /\ last.rescheduled
    /\ last.conf = bookings[1].confirmation_number

\* C23: no step of one BookingManager makes the list shorter, and every
\* confirmation number create_booking has returned is found by get_booking
\* before and after the step at the same record, whose id the step keeps.
C23_NeverRemoved ==
    [][ /\ Len(bookings') >= Len(bookings)
        /\ \A c \in issued :
              LET i == get_booking(bookings, c)
              IN  /\ i # 0
                  /\ get_booking(bookings', c) = i
                  /\ bookings'[i].confirmation_number = c
                  /\ bookings'[i].id = bookings[i].id ]_vars

\* two confirmation numbers have been returned, and the record of the first,
\* standing after the second on the time line, has just been cancelled
C23_Witness ==
    /\ Cardinality(issued) = 2
    /\ last.op = "cancel_booking"
    /\ last.ret = "True"
    /\ last.conf = bookings[1].confirmation_number
    /\ bookings[1].appointment_datetime = DT(20251223, 10, 30, " ")
    /\ bookings[2].appointment_datetime = DT(20251223, 10, 0, " ")

\* C24: with a clock that never runs backwards, every record of every
\* reachable state has updated_at >= created_at.
C24_UpdatedNotBeforeCreated ==
    \A i \in 1 .. Len(bookings) : bookings[i].updated_at >= bookings[i].created_at

\* a record created before the clock advanced has been updated after it did,
\* next to a record whose two readings at creation differ
C24_Witness ==
    /\ Len(bookings) = 2
    /\ last.op = "update_booking"
    /\ last.ret = "record"
    /\ last.conf = bookings[1].confirmation_number
    /\ bookings[1].created_at = 0
    /\ bookings[1].updated_at = 1
    /\ bookings[2].created_at = 0
    /\ bookings[2].updated_at = 1

\* what C25 says is_slot_available(s, x) returns in the current store
AvailableAsSpecified(s, x) ==
    /\ OpenDay(s.date)
    /\ OpensAt(s.date) <= s.hh * 60 + s.mm
    /\ s.hh * 60 + s.mm < ClosesAt(s.date)
    /\ ~\E i \in 1 .. Len(bookings) :
          /\ bookings[i].status # "cancelled"
          /\ bookings[i].confirmation_number # x
          /\ StartOfString(s) < StartOf(bookings[i]) + appointment_duration
          /\ StartOf(bookings[i]) < StartOfString(s) + appointment_duration

\* C25: is_slot_available(s, x) returns true exactly when s lies on an open
\* weekday at a time t with open <= t < close and no record that is neither
\* cancelled nor the one numbered x has an interval intersecting
\* [s, s + duration); a candidate abutting a record's interval is no conflict.
C25_SlotAvailableExactly ==
    [][ \A s \in SlotQueryDatetimes,
           x \in ConfirmationInputs \cup {NoConfirmation} :
            ( /\ last'.op = "is_slot_available"
              /\ last'.asked = s
              /\ last'.conf = x
              /\ Parseable(s)
              /\ is_slot_available_call(s, x) )
                => /\ last'.ret \in {"True", "False"}
                   /\ last'.ret = "True" <=> AvailableAsSpecified(s, x) ]_vars

\* is_slot_available has answered True for 10:30 and no exclusion in a store
\* with an active record at 10:00 and one from 10:30 that is cancelled
C25_Witness ==
    /\ last.op = "is_slot_available"
    /\ last.asked = DT(20251223, 10, 30, " ")
    /\ last.conf = NoConfirmation
    /\ last.ret = "True"
    /\ \E i, j \in 1 .. Len(bookings) :
          /\ bookings[i].status # "cancelled"
          /\ bookings[i].appointment_datetime = DT(20251223, 10, 0, " ")
          /\ bookings[j].status = "cancelled"
          /\ bookings[j].appointment_datetime = DT(20251223, 10, 30, " ")

\* the times C26 says get_available_slots(date) returns, as minutes from midnight
SlotsAsSpecified(date) ==
    IF ~OpenDay(date)
    THEN {}
    ELSE { t \in { OpensAt(date) + k * appointment_duration :
                      k \in 0 .. (ClosesAt(date) - OpensAt(date)) \div appointment_duration } :
              /\ t + appointment_duration <= ClosesAt(date)
              /\ AvailableNow(bookings, DT(date, t \div 60, t % 60, " ")) }

\* C26: called with the default window for a date on an open weekday,
\* get_available_slots returns in ascending order and without duplicates
\* exactly the times t = open + k * duration with t + duration <= close for
\* which is_slot_available is true in the current store; for a closed day it
\* returns the empty list.
C26_DefaultWindowSlots ==
    [][ \A date \in DateInputs :
            ( /\ last'.op = "get_available_slots"
              /\ date.kind = "date"
              /\ get_available_slots_call(date, HM(9, 0), HM(17, 0)) )
                => LET slots == last'.slots
                   IN  /\ \A k \in 1 .. Len(slots) :
                             slots[k].hh * 60 + slots[k].mm \in SlotsAsSpecified(date.date)
                       /\ \A t \in SlotsAsSpecified(date.date) :
                             Contains(slots, HM(t \div 60, t % 60))
                       /\ \A k \in 1 .. Len(slots) - 1 :
                             slots[k].hh * 60 + slots[k].mm
                                 < slots[k + 1].hh * 60 + slots[k + 1].mm ]_vars

\* get_available_slots has answered for the Tuesday with every step of the
\* day but 10:00, which an active record holds
C26_Witness ==
    /\ last.op = "get_available_slots"
    /\ Len(last.slots) = 15
    /\ last.slots[1] = HM(9, 0)
    /\ last.slots[15] = HM(16, 30)
    /\ ~Contains(last.slots, HM(10, 0))
    /\ \E i \in 1 .. Len(bookings) :
          /\ bookings[i].status # "cancelled"
          /\ bookings[i].appointment_datetime = DT(20251223, 10, 0, " ")

\* C27: get_available_slots ends for every date, window and duration the
\* constructor accepts: every iteration of its loop brings current nearer to
\* end, so that the loop is left after finitely many iterations.
C27_SlotsLoopTerminates ==
    [][ ( /\ threads[Main].pc = "walk"
          /\ threads'[Main].pc = "walk" )
            => threads'[Main].end - threads'[Main].current
                   < threads[Main].end - threads[Main].current ]_vars

\* the string s names a start within office hours whose interval intersects
\* the current interval of record i and of no other active record
OverlapsOnlyItself(i, s) ==
    /\ Parseable(s)
    /\ OpenDay(s.date)
    /\ OpensAt(s.date) <= s.hh * 60 + s.mm
    /\ s.hh * 60 + s.mm < ClosesAt(s.date)
    /\ Intersect(StartOfString(s), StartOf(bookings[i]), appointment_duration)
    /\ \A j \in 1 .. Len(bookings) :
          (j # i /\ Active(bookings[j]))
              => ~Intersect(StartOfString(s), StartOf(bookings[j]), appointment_duration)

SelfOverlapUpdateSucceeds(i, s) ==
    \A reason \in UpdateReasons, status \in FieldsStatuses \cup {None} :
        update_booking(bookings[i].confirmation_number, s, reason, status, clock')
            => /\ last'.ret = "record"
               /\ bookings'[i].appointment_datetime = s

SelfOverlapCreateRefused(s) ==
    \A status \in FieldsStatuses, t1 \in Now(clock) :
        create_booking("John Doe", "555-1234", None, s, None, status, t1, clock')
            => /\ last'.ret = "raised"
               /\ last'.msg = "is not available"
               /\ bookings' = bookings

\* C28 as stated: update_booking(c, t') for a t' within office hours whose
\* interval intersects only record c's own current interval succeeds, and
\* create_booking for the same t' is refused.
C28_RescheduleOntoItself ==
    [][ \A i \in 1 .. Len(bookings), s \in FieldsDatetimes :
            /\ ( /\ last'.op = "update_booking"
                  /\ last'.conf = bookings[i].confirmation_number
                  /\ OverlapsOnlyItself(i, s) )
                    => SelfOverlapUpdateSucceeds(i, s)
            /\ ( /\ last'.op = "create_booking"
                  /\ OverlapsOnlyItself(i, s) )
                    => SelfOverlapCreateRefused(s) ]_vars

\* C28, amended: update_booking(c, t') for a t' within office hours whose
\* interval intersects only record c's own current interval succeeds, and
\* while record c is not cancelled create_booking for the same t' is
\* refused.
C28_RescheduleOntoActiveItself ==
    [][ \A i \in 1 .. Len(bookings), s \in FieldsDatetimes :
            /\ ( /\ last'.op = "update_booking"
                  /\ last'.conf = bookings[i].confirmation_number
                  /\ OverlapsOnlyItself(i, s) )
                    => SelfOverlapUpdateSucceeds(i, s)
            /\ ( /\ last'.op = "create_booking"
                  /\ Active(bookings[i])
                  /\ OverlapsOnlyItself(i, s) )
                    => SelfOverlapCreateRefused(s) ]_vars

\* an active record has been moved to 10:15; the only other start a record of
\* this specification can have is 10:00, so it was moved within its own interval
C28_Witness ==
    /\ last.op = "update_booking"
    /\ last.ret = "record"
    /\ last.rescheduled
    /\ \E i \in 1 .. Len(bookings) :
          /\ bookings[i].confirmation_number = last.conf
          /\ bookings[i].appointment_datetime = DT(20251223, 10, 15, " ")
          /\ Active(bookings[i])
          /\ last.pre_status # "cancelled"

\* what a successful update_booking(c, s, reason, status) may change in the
\* record at position i that carries c, and what it must leave alone
UpdateFrame(i, s, reason, status) ==
    /\ Len(bookings') = Len(bookings)
    /\ \A j \in 1 .. Len(bookings) : j # i => bookings'[j] = bookings[j]
    /\ bookings'[i].id = bookings[i].id
    /\ bookings'[i].confirmation_number = bookings[i].confirmation_number
    /\ bookings'[i].patient_name = bookings[i].patient_name
    /\ bookings'[i].phone = bookings[i].phone
    /\ bookings'[i].email = bookings[i].email
    /\ bookings'[i].created_at = bookings[i].created_at
    /\ (Falsy(s) \/ s = bookings[i].appointment_datetime)
          => /\ bookings'[i].appointment_datetime = bookings[i].appointment_datetime
             /\ bookings'[i].datetime_iso = bookings[i].datetime_iso
    /\ reason = None => bookings'[i].reason = bookings[i].reason
    /\ status = None => bookings'[i].status = bookings[i].status

\* C29: a successful update_booking(c, datetime, reason, status) changes in
\* the record numbered c nothing but appointment_datetime and datetime_iso
\* (when a different datetime was passed), reason (when not None), status
\* (when not None) and updated_at, and changes no other record.
C29_UpdateFrame ==
    [][ ( /\ last'.op = "update_booking"
          /\ last'.ret = "record" )
            => \A s \in FieldsDatetimes \cup {NoDatetime}, reason \in UpdateReasons,
                  status \in FieldsStatuses \cup {None} :
                   update_booking(last'.conf, s, reason, status, clock')
                       => UpdateFrame(get_booking(bookings, last'.conf), s, reason, status) ]_vars

\* the second of two records, which has a reason, has been rescheduled at a
\* later clock reading than it was created at
C29_Witness ==
    /\ Len(bookings) = 2
    /\ last.op = "update_booking"
    /\ last.ret = "record"
    /\ last.rescheduled
    /\ last.conf = bookings[2].confirmation_number
    /\ bookings[2].reason = "cleaning"
    /\ bookings[2].created_at = 0
    /\ bookings[2].updated_at = 1
    /\ bookings[1].status = "cancelled"

\* the record's datetime_iso is what parsing its appointment_datetime gives
TwoRepresentationsAgree(b) ==
    b.datetime_iso = IsoFormat(ParseDatetime(b.appointment_datetime))

\* the string passed to the create_booking that made the step is the
\* appointment_datetime of the record it appended
CreateKeepsString ==
    \A s \in DatetimeInputs, status \in CreateStatuses :
        create_booking("John Doe", "555-1234", None, s, None, status, clock, clock)
            => bookings'[Len(bookings')].appointment_datetime = s

\* the string passed to the rescheduling update_booking that made the step
\* is the appointment_datetime of the record it names
RescheduleKeepsString ==
    \A s \in DatetimeInputs, status \in UpdateStatuses :
        update_booking(last'.conf, s, None, status, clock)
            => bookings'[get_booking(bookings, last'.conf)].appointment_datetime = s

\* C30: in every record datetime_iso is the parse of the record's
\* appointment_datetime; appointment_datetime is the string passed to
\* create_booking or to the last successful rescheduling update_booking of the
\* record; and no other step writes either of the two.
C30_TwoRepresentations ==
    [][ /\ \A i \in 1 .. Len(bookings') : TwoRepresentationsAgree(bookings'[i])
        /\ (last'.op = "create_booking" /\ last'.ret = "record") => CreateKeepsString
        /\ (last'.op = "update_booking" /\ last'.ret = "record" /\ last'.rescheduled)
              => RescheduleKeepsString
        /\ \A i \in 1 .. Len(bookings) :
              ( \/ bookings'[i].appointment_datetime # bookings[i].appointment_datetime
                \/ bookings'[i].datetime_iso # bookings[i].datetime_iso )
                  => /\ last'.op = "update_booking"
                     /\ last'.rescheduled
                     /\ last'.conf = bookings[i].confirmation_number ]_vars

\* a record has been rescheduled to the "T" spelling of 10:00 and holds that
\* string next to the canonical form
C30_Witness ==
    /\ last.op = "update_booking"
    /\ last.rescheduled
    /\ Len(bookings) > 0
    /\ last.conf = bookings[1].confirmation_number
    /\ bookings[1].appointment_datetime = DT(20251223, 10, 0, "T")
    /\ bookings[1].datetime_iso = IsoFormat(ParseDatetime(DT(20251223, 10, 0, " ")))

\* position in the stored list of a returned record
StoredAt(b) == CHOOSE k \in 1 .. Len(bookings) : bookings[k] = b

\* the list a get_bookings_by_date(date) call has to return from the current store
ByDateAsSpecified(records, date) ==
    /\ \A k \in 1 .. Len(bookings) :
           ( /\ date.kind = "date"
             /\ Active(bookings[k])
             /\ bookings[k].datetime_iso.date = date.date )
               <=> (\E n \in 1 .. Len(records) : records[n] = bookings[k])
    /\ \A n \in 1 .. Len(records) : \E k \in 1 .. Len(bookings) : records[n] = bookings[k]
    /\ \A m, n \in 1 .. Len(records) :
           m < n => \/ StartOf(records[m]) < StartOf(records[n])
                    \/ /\ StartOf(records[m]) = StartOf(records[n])
                       /\ StoredAt(records[m]) < StoredAt(records[n])

\* C31: a get_bookings_by_date call returns exactly the records that are not
\* cancelled and whose datetime_iso falls on the date asked about, in
\* ascending order of datetime_iso, records of one instant in stored order.
C31_ByDateSortedActive ==
    [][ \A date \in DateInputs :
            ( /\ last'.op = "get_bookings_by_date"
              /\ get_bookings_by_date_call(date) )
                => ByDateAsSpecified(last'.records, date) ]_vars

\* a call returned two records in another order than they are stored in
C31_Witness ==
    /\ last.op = "get_bookings_by_date"
    /\ Len(last.records) = 2
    /\ last.records[1] = bookings[2]
    /\ last.records[2] = bookings[1]

\* a call returned two records of one instant (one had been cancelled when
\* the other was created, and was confirmed again afterwards)
ByDateTie ==
    /\ last.op = "get_bookings_by_date"
    /\ Len(last.records) = 2
    /\ StartOf(last.records[1]) = StartOf(last.records[2])

RECURSIVE DigitsValue(_)
\* the number a string of decimal digits denotes
DigitsValue(digits) ==
    IF digits = <<>>
    THEN 0
    ELSE DigitsValue(SubSeq(digits, 1, Len(digits) - 1)) * 10 + digits[Len(digits)]

\* C32: a create_booking call that returns a record leaves as the last record
\* one whose confirmation number is "APT", the eight digits YYYYMMDD of the
\* date of its datetime_iso, and the count of records before the call plus
\* one in four digits, and whose id is that count plus one.
C32_ConfirmationNumberFormat ==
    [][ ( /\ last'.op = "create_booking"
          /\ last'.ret = "record" )
            => LET n == Len(bookings)
                   new == bookings'[n + 1]
                   str == ConfirmationString(new.confirmation_number)
               IN  /\ Len(bookings') = n + 1
                   /\ last'.conf = new.confirmation_number
                   /\ Len(str) = 15
                   /\ SubSeq(str, 1, 3) = <<"A", "P", "T">>
                   /\ DigitsValue(SubSeq(str, 4, 11)) = new.datetime_iso.date
                   /\ DigitsValue(SubSeq(str, 12, 15)) = n + 1
                   /\ new.id = n + 1 ]_vars

\* a record has been created as the second one, after the first was cancelled
C32_Witness ==
    /\ last.op = "create_booking"
    /\ last.ret = "record"
    /\ Len(bookings) = 2
    /\ bookings[1].status = "cancelled"
    /\ ConfirmationString(last.conf) = <<"A", "P", "T", 2, 0, 2, 5, 1, 2, 2, 3, 0, 0, 0, 2>>

\* C33: a create_booking call that returns a record leaves as the last record
\* one whose created_at and updated_at are the same instant.
C33_CreatedEqualsUpdatedAtCreation ==
    [][ ( /\ last'.op = "create_booking"
          /\ last'.ret = "record" )
            => LET new == bookings'[Len(bookings')]
               IN  new.created_at = new.updated_at ]_vars

\* C34: a create_booking call that returns a record makes the list one record
\* longer, the new record last, and leaves every record the list held at its
\* position with every field as it was.
C34_CreateAppendsOnly ==
    [][ ( /\ last'.op = "create_booking"
          /\ last'.ret = "record" )
            => /\ Len(bookings') = Len(bookings) + 1
               /\ \A i \in 1 .. Len(bookings) : bookings'[i] = bookings[i]
               /\ bookings'[Len(bookings')].confirmation_number = last'.conf
               /\ \A i \in 1 .. Len(bookings) :
                      bookings[i].confirmation_number # last'.conf ]_vars

\* a record has been created behind a record that had been rescheduled
C34_Witness ==
    /\ last.op = "create_booking"
    /\ last.ret = "record"
    /\ Len(bookings) = 2
    /\ bookings[2].confirmation_number = last.conf
    /\ bookings[1].appointment_datetime = DT(20251223, 10, 15, " ")
    /\ bookings[1].updated_at > bookings[1].created_at

QueryOperations ==
    { "is_slot_available", "get_available_slots", "get_booking", "get_booking_by_phone",
      "get_bookings_by_date" }

\* C35: a call of is_slot_available, get_available_slots, get_booking,
\* get_booking_by_phone or get_bookings_by_date leaves the in-memory list and
\* the artifact as they were, whether it returns or raises.
C35_QueriesChangeNothing ==
    [][ last'.op \in QueryOperations => (bookings' = bookings /\ file' = file) ]_vars

\* is_slot_available has raised on a store of two records that are stored
\* out of time order
C35_Witness ==
    /\ last.op = "is_slot_available"
    /\ last.ret = "raised"
    /\ Len(bookings) = 2
    /\ StartOf(bookings[2]) < StartOf(bookings[1])
    /\ file = save_bookings(bookings)

\* b is record a, possibly updated since: the fields no update_booking writes
SameRecord(a, b) ==
    /\ a.id = b.id
    /\ a.confirmation_number = b.confirmation_number
    /\ a.patient_name = b.patient_name
    /\ a.phone = b.phone
    /\ a.created_at = b.created_at

\* C36: with the chat handler's and the voice handler's BookingManager over
\* one artifact, no request through either handler takes a record out of
\* the artifact: every record the artifact holds before a step (each was
\* returned by a create_booking call) is held by it after the step.
C36_NoWriteErasesARecord ==
    [][ \A i \in 1 .. Len(file.recs) :
            \E j \in 1 .. Len(file'.recs) : SameRecord(file.recs[i], file'.recs[j]) ]_vars

\* the records create_booking has returned on either instance
ReturnedRecords ==
    { <<"chat", i>> : i \in 1 .. Len(bookings) } \cup { <<"voice", i>> : i \in 1 .. Len(voice) }

RecordOf(x) == ManagerBookings(x[1])[x[2]]

\* C37: among the records create_booking has returned on the chat handler's
\* and on the voice handler's instance no two that are not cancelled have
\* intersecting intervals, and no two carry the same confirmation number.
C37_NoDoubleBookingAcrossHandlers ==
    \A x, y \in ReturnedRecords :
        x # y =>
            /\ RecordOf(x).confirmation_number # RecordOf(y).confirmation_number
            /\ (Active(RecordOf(x)) /\ Active(RecordOf(y)))
                   => ~Intersect(StartOf(RecordOf(x)), StartOf(RecordOf(y)),
                                 appointment_duration)

\* the list of the handler that answered, before and after the request
ListBefore == ManagerBookings(last'.handler)
ListAfter == IF last'.handler = "chat" THEN bookings' ELSE voice'

\* C39: a response of the chat or of the voice handler carries booking_status
\* "confirmed" only when create_booking returned a record in that request
\* (the record the response carries, now last in the handler's list),
\* "rescheduled" only when update_booking returned the record, "cancelled"
\* only when cancel_booking returned True and the record is cancelled; and
\* when the call raised a ValueError (slot not available, datetime missing
\* or not parseable) the response carries booking_status None and
\* booking_info None, and both lists and the artifact are as they were.
C39_StatusOnlyOnSuccess ==
    [][ last'.handler \in Handlers =>
          /\ last'.booking_status = "confirmed" =>
                /\ last'.op = "create_booking" /\ last'.ret = "record"
                /\ Len(ListAfter) = Len(ListBefore) + 1
                /\ last'.records = <<ListAfter[Len(ListAfter)]>>
                /\ file' = save_bookings(ListAfter)
          /\ last'.booking_status = "rescheduled" =>
                /\ last'.op = "update_booking" /\ last'.ret = "record"
                /\ get_booking(ListAfter, last'.conf) # 0
                /\ last'.records = <<ListAfter[get_booking(ListAfter, last'.conf)]>>
                /\ file' = save_bookings(ListAfter)
          /\ last'.booking_status = "cancelled" =>
                /\ last'.op = "cancel_booking" /\ last'.ret = "True"
                /\ get_booking(ListAfter, last'.conf) # 0
                /\ ListAfter[get_booking(ListAfter, last'.conf)].status = "cancelled"
                /\ file' = save_bookings(ListAfter)
          /\ (last'.ret = "raised" /\ last'.exc = "ValueError") =>
                /\ last'.response = "dict"
                /\ last'.booking_status = None
                /\ last'.records = <<>>
                /\ bookings' = bookings /\ voice' = voice /\ file' = file ]_vars

\* a request to reschedule onto a slot another record holds has been answered
\* without a booking_status
C39_Witness ==
    /\ last.handler = "chat"
    /\ last.op = "update_booking"
    /\ last.msg = "is not available"
    /\ last.response = "dict"
    /\ last.booking_status = None
    /\ Len(bookings) = 2
    /\ file = save_bookings(bookings)

\* the step is a create_booking call whose write of the artifact failed
\* (the steps that are no calls change disk and leave last as it was)
CreateWriteFailed ==
    /\ disk' = disk
    /\ last'.op = "create_booking"
    /\ last'.exc = "OSError"

\* the step is a call that changed the store and wrote the artifact
MutationSucceeded ==
    /\ last'.op \in {"create_booking", "update_booking", "cancel_booking"}
    /\ last'.ret \in {"record", "True"}
    /\ disk' = disk

\* the record at position i of the list is held by the artifact
Durable(bs, f, i) == \E j \in 1 .. Len(f.recs) : f.recs[j] = bs[i]

\* C38 as stated: a create_booking call whose write fails leaves the new
\* record last in the list, the list one record longer than the artifact,
\* and the record's slot taken; a call that changes the store and succeeds
\* leaves every record of the list in the artifact; and no step takes a
\* record out of the list.
C38_FailedWriteLeavesOneMore ==
    [][ /\ CreateWriteFailed =>
              /\ Len(bookings') = Len(bookings) + 1
              /\ \A i \in 1 .. Len(bookings) : bookings'[i] = bookings[i]
              /\ Len(bookings') = Len(file'.recs) + 1
              /\ ~is_slot_available(bookings', appointment_duration,
                                    bookings'[Len(bookings')].appointment_datetime,
                                    NoConfirmation)
        /\ MutationSucceeded =>
              \A i \in 1 .. Len(bookings') : Durable(bookings', file', i)
        /\ \A i \in 1 .. Len(bookings) :
              /\ i <= Len(bookings')
              /\ bookings'[i].id = bookings[i].id
              /\ bookings'[i].confirmation_number = bookings[i].confirmation_number ]_vars

\* C38, amended: a create_booking call whose write fails leaves the new
\* record last in the list and not in the artifact, and its slot taken
\* unless the record was created cancelled; a call that changes the store
\* and succeeds leaves every record of the list in the artifact; and no
\* step takes a record out of the list.
C38_FailedWriteLeavesRecordInMemory ==
    [][ /\ CreateWriteFailed =>
              /\ Len(bookings') = Len(bookings) + 1
              /\ \A i \in 1 .. Len(bookings) : bookings'[i] = bookings[i]
              /\ ~Durable(bookings', file', Len(bookings'))
              /\ Active(bookings'[Len(bookings')]) =>
                    ~is_slot_available(bookings', appointment_duration,
                                       bookings'[Len(bookings')].appointment_datetime,
                                       NoConfirmation)
        /\ MutationSucceeded =>
              \A i \in 1 .. Len(bookings') : Durable(bookings', file', i)
        /\ \A i \in 1 .. Len(bookings) :
              /\ i <= Len(bookings')
              /\ bookings'[i].id = bookings[i].id
              /\ bookings'[i].confirmation_number = bookings[i].confirmation_number ]_vars

\* the record of a create_booking call whose write failed (its confirmation
\* number was never returned) has been written by a later update_booking or
\* cancel_booking of another record
C38_Witness ==
    /\ last.op \in {"update_booking", "cancel_booking"}
    /\ last.ret \in {"record", "True"}
    /\ Len(bookings) = 2
    /\ last.conf = bookings[1].confirmation_number
    /\ bookings[2].confirmation_number \notin issued
    /\ Durable(bookings, file, 2)

====
